---- MODULE Spec2Model ----
(***************************************************************************)
(* Model of the Animation2D runtime core: the per-frame cache and its      *)
(* commit (Animation2DCache.h, DataInstance::ApplyCache), the clip         *)
(* evaluators (Animation2DClipInstance.cpp), the deform buffer lifecycle,  *)
(* event range dispatch and next-event queries, the pose-task ordering     *)
(* built at finalization and the Finalize functions themselves             *)
(* (Animation2DDataDefinition.cpp), the construction of a clip instance's  *)
(* constraint evaluators, and DataInstance::Clone; single evaluator calls  *)
(* sampled before and after a timeline's first key, the key-frame search   *)
(* with its hint (GetFrames), the slot colour channels, the ordering of    *)
(* constraints by their order value, the slot indices a clip's evaluators  *)
(* use, the Manager's list of tracked instances (Animation2DManager.cpp),  *)
(* DataDefinition::Load, and the content loader's use of its entry's       *)
(* loader count (Animation2DContentLoader.cpp).                            *)
(*                                                                         *)
(* Conventions.  C++ vectors are sequences; the C++ index i is the TLA+    *)
(* index i + 1 (see At / Put).  Times are integer ticks of the editor      *)
(* time grid.  Weights (fAlpha) are integers in tenths: 10 is 1.0f.        *)
(* HString ids are small integers, 0 is the empty HString.                 *)
(***************************************************************************)
EXTENDS Integers, Sequences, FiniteSets, TLC

VARIABLES
    inst,        \* the DataInstance (instance state and its Cache)
    phase,       \* which operation acted last on the instance
    applied,     \* what the last ApplyCache consumed (history, for stating claims)
    evals,       \* Evaluate calls since the last ApplyCache
    kind,        \* the timeline kind the session's clips carry
    target,      \* the bone or constraint a continuous timeline of the session drives
    outcome,     \* one frame run with two Evaluate calls in both orders
    deforms,     \* m_tDeforms and m_tDeformReferences of an instance
    evaluators,  \* the live DeformEvaluators registered on that instance
    clone,       \* deform state of the instance the last Clone returned
    clip,        \* an EventEvaluator: event keys, mix threshold, event interface
    last,        \* the last EventEvaluator::EvaluateRange call and what it dispatched
    played,      \* dispatch count per event key during a playback
    chain,       \* the consecutive ranges a playback has passed so far
    pose,        \* DataDefinition::FinalizePoseTasks in progress
    drawn,       \* the draw-order keys evaluated in the frame last committed or in progress
    life,        \* the last operation of a deform evaluator, and what its key has been through
    asked,       \* the last ClipInstance::GetNextEventTime call and what it returned
    defn,        \* a DataDefinition on its way through the Finalize functions
    built,       \* a ClipInstance: the constraint evaluators its constructor made
    twin,        \* an instance, its clone, and the heap their deform buffers live in
    sample,      \* the evaluator of a sampling session and its last Evaluate call
    scan,        \* a KeyFrameEvaluator: its keys, m_uLastKeyFrame and its last GetFrames call
    tint,        \* slot colours of an instance, the colour tables of its Cache, and the last commit
    sorting,     \* the constraints of a definition and the order FinalizePoseTasks gave their tasks
    reach,       \* a ClipInstance's slot evaluators and the slot indices the last call used
    mgr,         \* the Manager's tracked instance list, its mutex and the threads calling into it
    loaded,      \* a DataDefinition's tables before and after its last Load
    loading      \* a content entry's loader count and the DataContentLoaders made for it

frameVars == <<inst, phase, applied, evals, kind, target>>

deformVars == <<deforms, evaluators, clone>>

eventVars == <<clip, last, played, chain>>

auxVars == <<drawn, life, asked, defn, built, twin>>

lateVars == <<sample, scan, tint, sorting, reach, mgr, loaded, loading>>

vars == <<frameVars, outcome, deformVars, eventVars, pose, auxVars, lateVars>>

(***************************************************************************)
(* Bounds.                                                                 *)
(***************************************************************************)
NumSlots == 2
MaxOffsets == 2
MaxTime == 2
MaxEvals == 2
NumBones == 2
NumIk == 1
MaxEvaluators == 2
MaxEvents == 2
MaxCalls == 3
MaxConstraints == 1
NumPoseBones == 4
NumDefBones == 2
MaxChain == 2
MaxKeys == 3
MaxOrdered == 2
MaxInstances == 3
MaxRefs == 2
MaxFiles == 2
MaxLoaders == 2

(***************************************************************************)
(* Vector helpers (0-based C++ index on 1-based sequences).                *)
(***************************************************************************)
At(v, i) == v[i + 1]
Put(v, i, x) == [v EXCEPT ![i + 1] = x]
Last(v) == v[Len(v)]

(***************************************************************************)
(* The definition (immutable).  Slot ids are the slot indices.             *)
(***************************************************************************)
SlotIndices == 0 .. (NumSlots - 1)
AttachIds == {1, 2}
Weights == {3, 7, 10}
Times == 0 .. MaxTime

\* SlotDataDefinition::m_AttachmentId of each slot (0: no attachment).
DefaultAttachment(iSlot) == iSlot % 3

vSlotsData == [i \in 1 .. NumSlots |-> [m_AttachmentId |-> DefaultAttachment(i - 1)]]

GetSlotIndex(id) == IF id \in SlotIndices THEN id ELSE -1

\* BoneDefinition rest pose (degrees) and IkDefinition rest values.  Mixes and
\* booleans-as-floats are in hundredths: 100 is 1.0f.
BoneIndices == 0 .. (NumBones - 1)
IkIndices == 0 .. (NumIk - 1)

vBonesData == [i \in 1 .. NumBones |-> [m_fRotationInDegrees |-> 30 * (i - 1)]]

vIkData == [i \in 1 .. NumIk |->
          [m_fMix |-> 100, m_fSoftness |-> 0, m_bBendPositive |-> TRUE,
           m_bCompress |-> FALSE, m_bStretch |-> FALSE]]

(***************************************************************************)
(* Cache.                                                                  *)
(***************************************************************************)
SetDefaultDrawOrder(uSlots) == [i \in 1 .. uSlots |-> i - 1]

EmptyCache ==
    [ m_vAttachments      |-> <<>>,
      m_vDrawOrder        |-> <<>>,
      m_vDrawOrderScratch |-> <<>>,
      m_SlotScratch       |-> {},
      m_tRotation         |-> <<>>,
      m_tIk               |-> <<>> ]

\* AccumCommon on a table of Float: Insert, and += on the stored value when
\* the key is present.
AccumCommon(r, i, v) ==
    IF i \in DOMAIN r THEN [r EXCEPT ![i] = @ + v] ELSE r @@ (i :> v)

\* IkEntry::operator+=
IkEntryAdd(a, b) ==
    [m_fMix          |-> a.m_fMix + b.m_fMix,
     m_fSoftness     |-> a.m_fSoftness + b.m_fSoftness,
     m_fBendPositive |-> a.m_fBendPositive + b.m_fBendPositive,
     m_fCompress     |-> a.m_fCompress + b.m_fCompress,
     m_fStretch      |-> a.m_fStretch + b.m_fStretch]

\* AccumCommon on the table of IkEntry.
AccumCommonIk(r, i, e) ==
    IF i \in DOMAIN r THEN [r EXCEPT ![i] = IkEntryAdd(@, e)] ELSE r @@ (i :> e)

AccumRotation(cache, i, f) == [cache EXCEPT !.m_tRotation = AccumCommon(@, i, f)]
AccumIk(cache, i, e) == [cache EXCEPT !.m_tIk = AccumCommonIk(@, i, e)]

IsDirty(cache) ==
    \/ cache.m_vAttachments # <<>>
    \/ cache.m_vDrawOrder # <<>>
    \/ DOMAIN cache.m_tIk # {}
    \/ DOMAIN cache.m_tRotation # {}

\* An accumulate that keeps only the newest entry.
AccumSlotAttachment_Overwrite(cache, iSlot, attachmentId, fAlpha) ==
    [cache EXCEPT !.m_vAttachments =
        << [m_fAlpha |-> fAlpha, m_AttachmentId |-> attachmentId, m_iSlot |-> iSlot] >>]

AccumSlotAttachment(cache, iSlot, attachmentId, fAlpha) ==
    [cache EXCEPT !.m_vAttachments =
        Append(@, [m_fAlpha |-> fAlpha, m_AttachmentId |-> attachmentId, m_iSlot |-> iSlot])]

\* A Clear that leaves the slot scratch set of the commit behind.
CacheClear_KeepSlotScratch(cache) ==
    [cache EXCEPT !.m_vAttachments = <<>>,
                  !.m_vDrawOrder = <<>>,
                  !.m_tIk = <<>>,
                  !.m_tRotation = <<>>]

CacheClear(cache) ==
    [cache EXCEPT !.m_vAttachments = <<>>,
                  !.m_vDrawOrder = <<>>,
                  !.m_tIk = <<>>,
                  !.m_tRotation = <<>>,
                  !.m_SlotScratch = {}]

\* SlotAttachmentEntry::operator<
\* An ordering with the weights compared the wrong way round.
EntryLess_Descending(a, b) ==
    IF a.m_fAlpha = b.m_fAlpha THEN a.m_iSlot < b.m_iSlot ELSE b.m_fAlpha < a.m_fAlpha

EntryLess(a, b) ==
    IF a.m_fAlpha = b.m_fAlpha THEN a.m_iSlot < b.m_iSlot ELSE a.m_fAlpha < b.m_fAlpha

(***************************************************************************)
(* DataInstance construction.                                              *)
(***************************************************************************)
InternalConstruct ==
    [ m_vDrawOrder |-> SetDefaultDrawOrder(NumSlots),
      m_vSlots     |-> [i \in 1 .. NumSlots |-> [m_AttachmentId |-> vSlotsData[i].m_AttachmentId]],
      m_vBones     |-> [i \in 1 .. NumBones |-> [m_fRotationInDegrees |-> vBonesData[i].m_fRotationInDegrees]],
      m_vIk        |-> [i \in 1 .. NumIk |-> vIkData[i]],
      m_pCache     |-> EmptyCache ]

(***************************************************************************)
(* DrawOrderEvaluator::Evaluate.                                           *)
(***************************************************************************)
\* while (u + 1u < uEnd && m_v[u + 1u].m_fTime <= fTime) ++u;
RECURSIVE ActiveKey(_, _, _)
ActiveKey(v, u, fTime) ==
    IF u + 1 < Len(v) /\ At(v, u + 1).m_fTime <= fTime
    THEN ActiveKey(v, u + 1, fTime)
    ELSE u

\* The walk over the offsets: place each listed slot, clear it in scratch.
RECURSIVE MarkOffsets(_, _, _)
MarkOffsets(offs, k, ds) ==
    IF k > Len(offs) THEN ds
    ELSE LET iSlot == GetSlotIndex(offs[k].m_Slot)
         IN MarkOffsets(offs, k + 1,
                [drawOrder |-> Put(ds.drawOrder, iSlot + offs[k].m_iOffset, iSlot),
                 scratch   |-> Put(ds.scratch, iSlot, -1)])

\* The inner while: skip (and restore) the slots that were placed.
RECURSIVE SkipPlaced(_, _)
SkipPlaced(scratch, iOutSlot) ==
    IF iOutSlot >= 0 /\ At(scratch, iOutSlot) < 0
    THEN SkipPlaced(Put(scratch, iOutSlot, iOutSlot), iOutSlot - 1)
    ELSE [scratch |-> scratch, iOutSlot |-> iOutSlot]

\* for (auto i = iDraws - 1; i >= 0; --i) { ... }
RECURSIVE FillUnchanged(_, _, _, _)
FillUnchanged(i, iOutSlot, drawOrder, scratch) ==
    IF i < 0 THEN [drawOrder |-> drawOrder, scratch |-> scratch, iOutSlot |-> iOutSlot]
    ELSE LET s == SkipPlaced(scratch, iOutSlot)
         IN IF At(drawOrder, i) >= 0
            THEN FillUnchanged(i - 1, s.iOutSlot, drawOrder, s.scratch)
            ELSE FillUnchanged(i - 1, s.iOutSlot - 1, Put(drawOrder, i, s.iOutSlot), s.scratch)

\* while (iOutSlot >= 0) { scratch[iOutSlot] = iOutSlot; --iOutSlot; }
RECURSIVE RestoreScratch(_, _)
RestoreScratch(scratch, iOutSlot) ==
    IF iOutSlot >= 0
    THEN RestoreScratch(Put(scratch, iOutSlot, iOutSlot), iOutSlot - 1)
    ELSE scratch

BuildDrawOrder(uSlots, offs) ==
    LET marked == MarkOffsets(offs, 1,
                      [drawOrder |-> [i \in 1 .. uSlots |-> -1],
                       scratch   |-> SetDefaultDrawOrder(uSlots)])
        filled == FillUnchanged(uSlots - 1, uSlots - 1, marked.drawOrder, marked.scratch)
    IN [drawOrder |-> filled.drawOrder,
        scratch   |-> RestoreScratch(filled.scratch, filled.iOutSlot)]

DrawOrderEvaluate(d, v, fTime) ==
    IF fTime < v[1].m_fTime THEN d
    ELSE LET offs == At(v, ActiveKey(v, 0, fTime)).m_vOffsets
         IN IF offs = <<>> THEN d
            ELSE LET b == BuildDrawOrder(Len(d.m_vSlots), offs)
                 IN [d EXCEPT !.m_pCache.m_vDrawOrder = b.drawOrder,
                              !.m_pCache.m_vDrawOrderScratch = b.scratch]

(***************************************************************************)
(* SlotAttachmentEvaluator::Evaluate.                                      *)
(***************************************************************************)
SlotAttachmentEvaluate(d, v, iSlot, fTime, fAlpha, bBlendDiscreteState) ==
    IF fTime < v[1].m_fTime THEN d
    ELSE IF ~bBlendDiscreteState /\ fAlpha # 10 THEN d
    ELSE [d EXCEPT !.m_pCache =
             AccumSlotAttachment(@, iSlot, At(v, ActiveKey(v, 0, fTime)).m_Id, fAlpha)]

(***************************************************************************)
(* KeyFrameEvaluator: GetFrames and GetAlpha.  An interpolation parameter  *)
(* is the fraction n / d.                                                   *)
(***************************************************************************)
\* for (; m_uLastKeyFrame + 1u < uSize; ++m_uLastKeyFrame) { ... } and the tail.
RECURSIVE ScanFrames(_, _, _)
ScanFrames(v, u, fTime) ==
    IF u + 1 < Len(v)
    THEN IF At(v, u + 1).m_fTime > fTime
         THEN [pr0 |-> u, pr1 |-> u + 1, m_uLastKeyFrame |-> u]
         ELSE ScanFrames(v, u + 1, fTime)
    ELSE [pr0 |-> u, pr1 |-> u, m_uLastKeyFrame |-> u]

\* A GetFrames that keeps its hint when the time moves backwards.
GetFrames_KeepHint(v, uLastKeyFrame, fTime) ==
    IF At(v, uLastKeyFrame).m_fTime > fTime /\ uLastKeyFrame = 0
    THEN [pr0 |-> 0, pr1 |-> 0, m_uLastKeyFrame |-> 0]
    ELSE ScanFrames(v, uLastKeyFrame, fTime)

GetFrames(v, uLastKeyFrame, fTime) ==
    IF At(v, uLastKeyFrame).m_fTime > fTime
    THEN IF uLastKeyFrame = 0
         THEN [pr0 |-> 0, pr1 |-> 0, m_uLastKeyFrame |-> 0]
         ELSE ScanFrames(v, 0, fTime)
    ELSE ScanFrames(v, uLastKeyFrame, fTime)

\* kLinear: Clamp((fTime - r0.time) / (r1.time - r0.time), 0, 1); kStepped: 0.
\* When both ends are the same key the divisor is 0: past the key the quotient
\* is +infinity and the clamp gives 1; at the key it is 0 / 0, taken as 0 here
\* (both ends hold the same value, so the interpolated value is that value).
GetAlpha(fTime, r0, r1) ==
    IF r0.m_uCurveType = "kStepped" THEN [n |-> 0, d |-> 1]
    ELSE IF fTime <= r0.m_fTime THEN [n |-> 0, d |-> 1]
    ELSE IF fTime >= r1.m_fTime THEN [n |-> 1, d |-> 1]
    ELSE [n |-> fTime - r0.m_fTime, d |-> r1.m_fTime - r0.m_fTime]

Lerp(a, b, fT) == a + (((b - a) * fT.n) \div fT.d)

\* Maps an angle into (-180, 180].
ClampDegrees(x) ==
    LET m == (x + 180) % 360 IN IF m = 0 THEN 180 ELSE m - 180

\* Interpolation along the short arc.
LerpDegrees(a, b, fT) == a + ((ClampDegrees(b - a) * fT.n) \div fT.d)

\* A weight in tenths applied to a value.
Weighted(x, fAlpha) == (x * fAlpha) \div 10

FrameValues(v, fTime) ==
    LET f == GetFrames(v, 0, fTime)
    IN [k0 |-> At(v, f.pr0), k1 |-> At(v, f.pr1), fT |-> GetAlpha(fTime, At(v, f.pr0), At(v, f.pr1))]

(***************************************************************************)
(* RotationEvaluator::Evaluate and IkEvaluator::Evaluate, each on an       *)
(* evaluator that was just constructed (m_uLastKeyFrame = 0).              *)
(***************************************************************************)
\* A rotation evaluator that subtracts the bone's rest rotation from the key value.
RotationEvaluate_FromRest(d, v, iBone, fTime, fAlpha) ==
    IF fTime < v[1].m_fTime THEN d
    ELSE LET f == FrameValues(v, fTime)
         IN [d EXCEPT !.m_pCache = AccumRotation(@, iBone,
                Weighted(LerpDegrees(f.k0.m_fAngleInDegrees, f.k1.m_fAngleInDegrees, f.fT)
                           - At(vBonesData, iBone).m_fRotationInDegrees, fAlpha))]

RotationEvaluate(d, v, iBone, fTime, fAlpha) ==
    IF fTime < v[1].m_fTime THEN d
    ELSE LET f == FrameValues(v, fTime)
         IN [d EXCEPT !.m_pCache = AccumRotation(@, iBone,
                Weighted(LerpDegrees(f.k0.m_fAngleInDegrees, f.k1.m_fAngleInDegrees, f.fT), fAlpha))]

BoolToFloat(b) == IF b THEN 100 ELSE 0

LerpBoolean(bBase, b0, b1, fT, fAlpha) ==
    Weighted(Lerp(BoolToFloat(b0), BoolToFloat(b1), fT) - BoolToFloat(bBase), fAlpha)

IkEvaluate(d, v, iIk, fTime, fAlpha) ==
    IF fTime < v[1].m_fTime THEN d
    ELSE LET f == FrameValues(v, fTime)
             base == At(vIkData, iIk)
             entry ==
                 [m_fMix          |-> Weighted(Lerp(f.k0.m_fMix, f.k1.m_fMix, f.fT) - base.m_fMix, fAlpha),
                  m_fSoftness     |-> Weighted(Lerp(f.k0.m_fSoftness, f.k1.m_fSoftness, f.fT) - base.m_fSoftness, fAlpha),
                  m_fBendPositive |-> LerpBoolean(base.m_bBendPositive, f.k0.m_bBendPositive, f.k1.m_bBendPositive, f.fT, fAlpha),
                  m_fCompress     |-> LerpBoolean(base.m_bCompress, f.k0.m_bCompress, f.k1.m_bCompress, f.fT, fAlpha),
                  m_fStretch      |-> LerpBoolean(base.m_bStretch, f.k0.m_bStretch, f.k1.m_bStretch, f.fT, fAlpha)]
         IN [d EXCEPT !.m_pCache = AccumIk(@, iIk, entry)]

(***************************************************************************)
(* DataInstance::ApplyCache.                                               *)
(***************************************************************************)
FloatToBool(bBase, f) == (BoolToFloat(bBase) + f) >= 50

ApplyCacheIk(d) ==
    [i \in 1 .. Len(d.m_vIk) |->
        LET base == vIkData[i] IN
        IF (i - 1) \notin DOMAIN d.m_pCache.m_tIk
        THEN [d.m_vIk[i] EXCEPT !.m_fMix = base.m_fMix,
                                !.m_fSoftness = base.m_fSoftness,
                                !.m_bBendPositive = base.m_bBendPositive,
                                !.m_bCompress = base.m_bCompress,
                                !.m_bStretch = base.m_bStretch]
        ELSE LET e == d.m_pCache.m_tIk[i - 1]
             IN [d.m_vIk[i] EXCEPT !.m_fMix = base.m_fMix + e.m_fMix,
                                   !.m_fSoftness = base.m_fSoftness + e.m_fSoftness,
                                   !.m_bBendPositive = FloatToBool(base.m_bBendPositive, e.m_fBendPositive),
                                   !.m_bCompress = FloatToBool(base.m_bCompress, e.m_fCompress),
                                   !.m_bStretch = FloatToBool(base.m_bStretch, e.m_fStretch)]]

ApplyCacheBones(d) ==
    [i \in 1 .. Len(d.m_vBones) |->
        IF (i - 1) \notin DOMAIN d.m_pCache.m_tRotation
        THEN [d.m_vBones[i] EXCEPT !.m_fRotationInDegrees = vBonesData[i].m_fRotationInDegrees]
        ELSE [d.m_vBones[i] EXCEPT !.m_fRotationInDegrees =
                 ClampDegrees(vBonesData[i].m_fRotationInDegrees + d.m_pCache.m_tRotation[i - 1])]]

IsSorted(v) == \A i \in 1 .. (Len(v) - 1) : ~EntryLess(v[i + 1], v[i])

Reorderings(v) ==
    { [i \in 1 .. Len(v) |-> v[p[i]]] :
        p \in { q \in [1 .. Len(v) -> 1 .. Len(v)] : \A i, j \in 1 .. Len(v) : q[i] = q[j] => i = j } }

\* QuickSort(Begin, End) with operator<: an ordering of the same entries in
\* which no entry is less than an earlier one; entries that compare
\* equivalent come out in an order the sort does not promise.
QuickSort(v) == { s \in Reorderings(v) : IsSorted(s) }

\* UInt32 u = uSize - 1u; while (u > 0u) { if (v[u-1].alpha < v[u].alpha) break; --u; }
RECURSIVE FirstOfTopGroup(_, _)
FirstOfTopGroup(v, u) ==
    IF u > 0 /\ ~(At(v, u - 1).m_fAlpha < At(v, u).m_fAlpha)
    THEN FirstOfTopGroup(v, u - 1)
    ELSE u

\* for (UInt32 i = u; i < uSize; ++i) { m_vSlots[e.m_iSlot].m_AttachmentId = ...; scratch.Insert }
RECURSIVE ApplyTopGroup(_, _, _, _)
ApplyTopGroup(v, i, vSlots, slotScratch) ==
    IF i >= Len(v) THEN [vSlots |-> vSlots, slotScratch |-> slotScratch]
    ELSE LET e == At(v, i)
         IN ApplyTopGroup(v, i + 1,
                Put(vSlots, e.m_iSlot, [At(vSlots, e.m_iSlot) EXCEPT !.m_AttachmentId = e.m_AttachmentId]),
                slotScratch \cup {e.m_iSlot})

\* A commit that leaves the instance's draw order alone when the cache has none.
ApplyCacheDrawOrder_KeepWhenEmpty(d) ==
    IF d.m_pCache.m_vDrawOrder = <<>> THEN d.m_vDrawOrder ELSE d.m_pCache.m_vDrawOrder

ApplyCacheDrawOrder(d) ==
    IF d.m_pCache.m_vDrawOrder = <<>>
    THEN SetDefaultDrawOrder(Len(vSlotsData))
    ELSE d.m_pCache.m_vDrawOrder

\* sorted: the outcome of the QuickSort of m_vAttachments.
ApplyCacheAttachments(d, sorted) ==
    LET top == IF sorted = <<>>
               THEN [vSlots |-> d.m_vSlots, slotScratch |-> d.m_pCache.m_SlotScratch]
               ELSE ApplyTopGroup(sorted, FirstOfTopGroup(sorted, Len(sorted) - 1),
                                  d.m_vSlots, d.m_pCache.m_SlotScratch)
    IN [m_vSlots |->
            [i \in 1 .. Len(d.m_vSlots) |->
                IF (i - 1) \in top.slotScratch
                THEN top.vSlots[i]
                ELSE [top.vSlots[i] EXCEPT !.m_AttachmentId = vSlotsData[i].m_AttachmentId]],
        m_SlotScratch |-> top.slotScratch]

ApplyCacheWith(d, sorted) ==
    LET attachments == ApplyCacheAttachments(d, sorted)
    IN [d EXCEPT !.m_vDrawOrder = ApplyCacheDrawOrder(d),
                 !.m_vSlots     = attachments.m_vSlots,
                 !.m_vIk        = ApplyCacheIk(d),
                 !.m_vBones     = ApplyCacheBones(d),
                 !.m_pCache     = CacheClear([@ EXCEPT !.m_SlotScratch = attachments.m_SlotScratch])]

(***************************************************************************)
(* The clips: timelines a clip can carry.                                  *)
(***************************************************************************)
OffsetPairs ==
    { [m_Slot |-> s, m_iOffset |-> o] :
        s \in SlotIndices, o \in (1 - NumSlots) .. (NumSlots - 1) }

InRange(p) == (GetSlotIndex(p.m_Slot) + p.m_iOffset) \in SlotIndices

RECURSIVE SeqsUpTo(_, _)
SeqsUpTo(S, n) ==
    IF n = 0 THEN {<<>>}
    ELSE LET shorter == SeqsUpTo(S, n - 1)
         IN shorter \cup { Append(q, x) : q \in { r \in shorter : Len(r) = n - 1 }, x \in S }

\* Offset lists as the exporter writes them: slots in increasing order, every
\* target position inside the draw order.  Two entries may name one target.
OffsetLists ==
    { l \in SeqsUpTo({ p \in OffsetPairs : InRange(p) }, MaxOffsets) :
        \A i \in 1 .. (Len(l) - 1) : l[i].m_Slot < l[i + 1].m_Slot }

ShortOffsetLists == { l \in OffsetLists : Len(l) <= 1 }

DrawOrderTimelines ==
    { <<[m_fTime |-> 1, m_vOffsets |-> o]>> : o \in OffsetLists }
    \cup
    { <<[m_fTime |-> 0, m_vOffsets |-> o0], [m_fTime |-> 1, m_vOffsets |-> o1]>> :
        o0 \in ShortOffsetLists, o1 \in ShortOffsetLists }

AttachmentTimelines ==
    { <<[m_fTime |-> 1, m_Id |-> a]>> : a \in AttachIds }
    \cup
    { <<[m_fTime |-> 0, m_Id |-> 1], [m_fTime |-> 1, m_Id |-> 2]>> }

Angles == {-40, 40}
CurveTypes == {"kLinear", "kStepped"}

RotationTimelines ==
    { <<[m_fTime |-> 1, m_uCurveType |-> "kLinear", m_fAngleInDegrees |-> a]>> : a \in Angles }
    \cup
    { <<[m_fTime |-> 0, m_uCurveType |-> c, m_fAngleInDegrees |-> a],
        [m_fTime |-> 2, m_uCurveType |-> "kLinear", m_fAngleInDegrees |-> b]>> :
        c \in CurveTypes, a \in Angles, b \in Angles }

IkKey(t, c, on) ==
    [m_fTime |-> t, m_uCurveType |-> c, m_fMix |-> IF on THEN 100 ELSE 0, m_fSoftness |-> 0,
     m_bBendPositive |-> on, m_bCompress |-> FALSE, m_bStretch |-> FALSE]

IkTimelines ==
    { <<IkKey(1, "kLinear", on)>> : on \in BOOLEAN }
    \cup
    { <<IkKey(0, c, on0), IkKey(2, "kLinear", on1)>> :
        c \in CurveTypes, on0 \in BOOLEAN, on1 \in BOOLEAN }

TimelineKinds == {"drawOrder", "attachment", "rotation", "ik"}

Targets(k) ==
    IF k = "rotation" THEN BoneIndices ELSE IF k = "ik" THEN IkIndices ELSE {0}

(***************************************************************************)
(* Actions on the instance.                                                *)
(***************************************************************************)
\* No commit has happened since the last evaluate.
NoFrame == [cache |-> EmptyCache, before |-> InternalConstruct]

\* Values of the state a specification does not use.
NoOutcome == [ran |-> FALSE]
NoDeforms == [m_tDeforms |-> <<>>, m_tDeformReferences |-> <<>>]
NoEvaluator == [m_Key |-> 0]
NoClone == [made |-> FALSE]
NoClip == [m_v |-> <<>>]
NoCall == [made |-> FALSE]
NoChain == [uCalls |-> 0, fEnd |-> 0, bHeard |-> TRUE]
NoPose == [vBones |-> <<>>]

EvalIds == 1 .. MaxEvaluators

IdleFrame ==
    /\ inst = InternalConstruct
    /\ phase = "constructed"
    /\ applied = NoFrame
    /\ evals = 0
    /\ kind = "drawOrder"
    /\ target = 0

IdleOrder == outcome = NoOutcome

IdleDeform ==
    /\ deforms = NoDeforms
    /\ evaluators = [e \in EvalIds |-> NoEvaluator]
    /\ clone = NoClone

IdleEvents ==
    /\ clip = NoClip
    /\ last = NoCall
    /\ played = <<>>
    /\ chain = NoChain

IdlePose == pose = NoPose

\* No draw-order evaluator found a key active.
NoDrawn == [uKeys |-> 0, bEmptyKey |-> FALSE, vWritten |-> <<>>]

NoLife == [op |-> "none", key |-> 0, bBefore |-> FALSE, evaluated |-> {}, released |-> {}]

NoQuery == [made |-> FALSE, fEventTime |-> 0]

NoDefinition == [stage |-> "none"]

NoInstance == [made |-> FALSE]

NoTwin == [a |-> [made |-> FALSE], b |-> [made |-> FALSE], heap |-> <<>>, uCalls |-> 0,
           op |-> [on |-> "", name |-> ""]]

\* No Evaluate call has been sampled.
NoSample == [v |-> <<>>, made |-> FALSE, fTime |-> 0, fAlpha |-> 0, fFirst |-> 0, key |-> 0,
             before |-> [inst |-> InternalConstruct, deforms |-> NoDeforms]]

\* No KeyFrameEvaluator has been constructed.
NoScan == [v |-> <<>>, m_uLastKeyFrame |-> 0, made |-> FALSE, fTime |-> 0, fPrev |-> 0,
           uBefore |-> 0, pr0 |-> 0, pr1 |-> 0]

\* No slot-colour session is running.
NoTint == [made |-> FALSE]

\* No definition is having its constraints ordered.
NoSorting == [status |-> "none"]

\* No clip instance with slot timelines has been constructed.
NoReach == [stage |-> "none"]

\* No Manager exists.
NoManager == [stage |-> "none"]

\* No DataDefinition is being loaded.
NoLoaded == [stage |-> "none"]

\* No content entry exists.
NoLoading == [stage |-> "none"]

IdleLate ==
    /\ sample = NoSample
    /\ scan = NoScan
    /\ tint = NoTint
    /\ sorting = NoSorting
    /\ reach = NoReach
    /\ mgr = NoManager
    /\ loaded = NoLoaded
    /\ loading = NoLoading

IdleAux == drawn = NoDrawn /\ life = NoLife /\ asked = NoQuery /\ defn = NoDefinition /\ built = NoInstance
           /\ twin = NoTwin /\ IdleLate

InitFrame ==
    /\ inst = InternalConstruct
    /\ phase = "constructed"
    /\ applied = NoFrame
    /\ evals = 0
    /\ kind \in TimelineKinds
    /\ target \in Targets(kind)
    /\ IdleOrder /\ IdleDeform /\ IdleEvents /\ IdlePose /\ IdleAux

Evaluated(d) ==
    /\ evals < MaxEvals
    /\ inst' = d
    /\ phase' = "evaluated"
    /\ applied' = NoFrame
    /\ evals' = evals + 1
    /\ UNCHANGED <<kind, target, outcome, deformVars, eventVars, pose, auxVars, lateVars>>

EvaluateDrawOrder ==
    /\ kind = "drawOrder"
    /\ \E v \in DrawOrderTimelines, fTime \in Times :
          Evaluated(DrawOrderEvaluate(inst, v, fTime))

EvaluateSlotAttachment ==
    /\ kind = "attachment"
    /\ \E v \in AttachmentTimelines, iSlot \in SlotIndices, fTime \in Times,
          fAlpha \in Weights, bBlendDiscreteState \in BOOLEAN :
          Evaluated(SlotAttachmentEvaluate(inst, v, iSlot, fTime, fAlpha, bBlendDiscreteState))

EvaluateRotation ==
    /\ kind = "rotation"
    /\ \E v \in RotationTimelines, fTime \in Times, fAlpha \in Weights :
          Evaluated(RotationEvaluate(inst, v, target, fTime, fAlpha))

EvaluateIk ==
    /\ kind = "ik"
    /\ \E v \in IkTimelines, fTime \in Times, fAlpha \in Weights :
          Evaluated(IkEvaluate(inst, v, target, fTime, fAlpha))

ApplyCache ==
    \E sorted \in QuickSort(inst.m_pCache.m_vAttachments) :
        /\ inst' = ApplyCacheWith(inst, sorted)
        /\ phase' = "committed"
        /\ applied' = [cache |-> inst.m_pCache, before |-> inst]
        /\ evals' = 0
        /\ UNCHANGED <<kind, target, outcome, deformVars, eventVars, pose, auxVars, lateVars>>

NextFrame ==
    \/ EvaluateDrawOrder
    \/ EvaluateSlotAttachment
    \/ EvaluateRotation
    \/ EvaluateIk
    \/ ApplyCache

SpecFrame == InitFrame /\ [][NextFrame]_vars

(***************************************************************************)
(* Vocabulary of the claims.                                               *)
(***************************************************************************)
Range(v) == { v[i] : i \in 1 .. Len(v) }

IsPermutation(v, n) == Len(v) = n /\ \A s \in 0 .. (n - 1) : Cardinality({ i \in 1 .. Len(v) : v[i] = s }) = 1

\* The entries of greatest weight among those accumulated in a frame.
TopEntries(entries) ==
    { e \in Range(entries) : \A f \in Range(entries) : f.m_fAlpha <= e.m_fAlpha }

TopSlots(entries) == { e.m_iSlot : e \in TopEntries(entries) }

AppliedEntries == applied.cache.m_vAttachments

Entry(fAlpha, attachmentId, iSlot) ==
    [m_fAlpha |-> fAlpha, m_AttachmentId |-> attachmentId, m_iSlot |-> iSlot]

(***************************************************************************)
(* C1.  After any commit that follows a draw-order evaluator's evaluate,   *)
(* the instance's draw order is a permutation of [0..num_slots), for every *)
(* offset list a clip can carry.                                           *)
(***************************************************************************)
C1_DrawOrderIsPermutation ==
    phase = "committed" => IsPermutation(inst.m_vDrawOrder, NumSlots)

(***************************************************************************)
(* C6.  As stated: at commit every slot targeted by an attachment entry of *)
(* the greatest weight gets that entry's attachment id.                    *)
(***************************************************************************)
C6_EveryTopEntryWins ==
    phase = "committed" =>
        \A e \in TopEntries(AppliedEntries) :
            At(inst.m_vSlots, e.m_iSlot).m_AttachmentId = e.m_AttachmentId

(***************************************************************************)
(* C6, amended.  At commit every slot targeted by entries of the greatest  *)
(* weight gets the attachment id of one of the greatest-weight entries     *)
(* that target it (that entry's id when they all name the same id); with   *)
(* A (0.3) and B (0.7) both on slot 0 the committed id of slot 0 is B.     *)
(***************************************************************************)
C6_TopWeightWins ==
    phase = "committed" =>
        /\ \A s \in TopSlots(AppliedEntries) :
              At(inst.m_vSlots, s).m_AttachmentId \in
                  { e.m_AttachmentId : e \in { f \in TopEntries(AppliedEntries) : f.m_iSlot = s } }
        /\ \A a, b \in AttachIds :
              Range(AppliedEntries) = { Entry(3, a, 0), Entry(7, b, 0) }
                  => At(inst.m_vSlots, 0).m_AttachmentId = b

C6_Witness ==
    /\ phase = "committed"
    /\ AppliedEntries = << Entry(7, 2, 0), Entry(3, 1, 0) >>
    /\ At(inst.m_vSlots, 0).m_AttachmentId = 2

(***************************************************************************)
(* C7.  After every commit, each slot that is not targeted by an entry of  *)
(* that frame's top-weight group holds its Definition default attachment,  *)
(* whatever it held before and whatever lower-weight entries targeted it.  *)
(***************************************************************************)
C7_OthersResetToDefault ==
    phase = "committed" =>
        \A s \in SlotIndices \ TopSlots(AppliedEntries) :
            At(inst.m_vSlots, s).m_AttachmentId = At(vSlotsData, s).m_AttachmentId

C7_Witness ==
    /\ phase = "committed"
    /\ \E s \in SlotIndices \ TopSlots(AppliedEntries) :
          /\ At(applied.before.m_vSlots, s).m_AttachmentId # At(vSlotsData, s).m_AttachmentId
          /\ \E e \in Range(AppliedEntries) :
                e.m_iSlot = s /\ e.m_AttachmentId # At(vSlotsData, s).m_AttachmentId
          /\ At(inst.m_vSlots, s).m_AttachmentId = At(vSlotsData, s).m_AttachmentId

(***************************************************************************)
(* C10: after a frame step in which no evaluator contributed (the cache    *)
(* ApplyCache consumed was clean), every bone, slot, constraint and        *)
(* draw-order value of the instance equals its DataDefinition default.     *)
(***************************************************************************)
C10_NoContributionRestoresDefaults ==
    (phase = "committed" /\ ~IsDirty(applied.cache)) =>
        /\ inst.m_vBones = InternalConstruct.m_vBones
        /\ inst.m_vSlots = InternalConstruct.m_vSlots
        /\ inst.m_vIk = InternalConstruct.m_vIk
        /\ inst.m_vDrawOrder = InternalConstruct.m_vDrawOrder

C10_Witness ==
    /\ phase = "committed"
    /\ ~IsDirty(applied.cache)
    /\ \/ applied.before.m_vBones # InternalConstruct.m_vBones
       \/ applied.before.m_vSlots # InternalConstruct.m_vSlots
       \/ applied.before.m_vIk # InternalConstruct.m_vIk
       \/ applied.before.m_vDrawOrder # InternalConstruct.m_vDrawOrder
    /\ inst.m_vBones = InternalConstruct.m_vBones
    /\ inst.m_vDrawOrder = InternalConstruct.m_vDrawOrder

(***************************************************************************)
(* Deform evaluators: construction, destruction, Evaluate, and Clone of    *)
(* the instance they are registered on.  A deform buffer is a vector of    *)
(* vertex values; a table is a function on the keys it holds.              *)
(***************************************************************************)
DeformKeys == {1, 2}

TableErase(r, k) == [x \in (DOMAIN r) \ {k} |-> r[x]]

DeformTimelines ==
    { <<[m_fTime |-> 1, m_uCurveType |-> "kLinear", m_vVertices |-> <<20>>]>> }
    \cup
    { <<[m_fTime |-> 0, m_uCurveType |-> "kLinear", m_vVertices |-> <<0>>],
        [m_fTime |-> 1, m_uCurveType |-> "kLinear", m_vVertices |-> <<20>>]>> }

\* DeformEvaluator::DeformEvaluator
DeformEvaluatorConstruct(d, key) ==
    [d EXCEPT !.m_tDeformReferences =
        IF key \in DOMAIN @ THEN [@ EXCEPT ![key] = @ + 1] ELSE @ @@ (key :> 1)]

\* A destructor that gives up its reference and never releases the buffer.
DeformEvaluatorDestroy_KeepBuffer(d, key) ==
    IF d.m_tDeformReferences[key] = 1
    THEN [d EXCEPT !.m_tDeformReferences = TableErase(@, key)]
    ELSE [d EXCEPT !.m_tDeformReferences[key] = @ - 1]

\* DeformEvaluator::~DeformEvaluator
DeformEvaluatorDestroy(d, key) ==
    IF d.m_tDeformReferences[key] - 1 = 0
    THEN [d EXCEPT !.m_tDeformReferences = TableErase(@, key),
                   !.m_tDeforms = TableErase(@, key)]
    ELSE [d EXCEPT !.m_tDeformReferences[key] = @ - 1]

\* The vertex values the evaluator writes at fTime, and the key hint it keeps.
DeformFrames(ev, fTime) ==
    LET f == GetFrames(ev.m_v, ev.m_uLastKeyFrame, fTime)
        k0 == At(ev.m_v, f.pr0)
        k1 == At(ev.m_v, f.pr1)
        fT == GetAlpha(fTime, k0, k1)
    IN [m_uLastKeyFrame |-> f.m_uLastKeyFrame,
        value |-> [i \in 1 .. Len(k0.m_vVertices) |-> Lerp(k0.m_vVertices[i], k1.m_vVertices[i], fT)]]

\* An Evaluate that returns before the first key without touching the buffer.
DeformEvaluate_KeepBeforeFirstKey(d, ev, fTime, fAlpha) ==
    IF fTime < ev.m_v[1].m_fTime
    THEN d
    ELSE LET value == DeformFrames(ev, fTime).value IN
         IF ev.m_Key \notin DOMAIN d.m_tDeforms
         THEN [d EXCEPT !.m_tDeforms = @ @@ (ev.m_Key :> value)]
         ELSE [d EXCEPT !.m_tDeforms[ev.m_Key] = value]

\* An Evaluate that releases the buffer before the first key whoever else is registered.
DeformEvaluate_ReleaseWhenShared(d, ev, fTime, fAlpha) ==
    IF fTime < ev.m_v[1].m_fTime
    THEN [d EXCEPT !.m_tDeforms = TableErase(@, ev.m_Key)]
    ELSE LET value == DeformFrames(ev, fTime).value IN
         IF ev.m_Key \notin DOMAIN d.m_tDeforms
         THEN [d EXCEPT !.m_tDeforms = @ @@ (ev.m_Key :> value)]
         ELSE IF fAlpha < 10
         THEN [d EXCEPT !.m_tDeforms[ev.m_Key] =
                  [i \in 1 .. Len(@) |-> @[i] + Weighted(value[i] - @[i], fAlpha)]]
         ELSE [d EXCEPT !.m_tDeforms[ev.m_Key] = value]

\* DeformEvaluator::Evaluate on the instance tables.
DeformEvaluate(d, ev, fTime, fAlpha) ==
    IF fTime < ev.m_v[1].m_fTime
    THEN IF d.m_tDeformReferences[ev.m_Key] = 1
         THEN [d EXCEPT !.m_tDeforms = TableErase(@, ev.m_Key)]
         ELSE d
    ELSE LET value == DeformFrames(ev, fTime).value IN
         IF ev.m_Key \notin DOMAIN d.m_tDeforms
         THEN [d EXCEPT !.m_tDeforms = @ @@ (ev.m_Key :> value)]
         ELSE IF fAlpha < 10
         THEN [d EXCEPT !.m_tDeforms[ev.m_Key] =
                  [i \in 1 .. Len(@) |-> @[i] + Weighted(value[i] - @[i], fAlpha)]]
         ELSE [d EXCEPT !.m_tDeforms[ev.m_Key] = value]

\* The weighted step of a blend is a whole number of units.
ExactBlend(d, ev, fTime, fAlpha) ==
    (fTime >= ev.m_v[1].m_fTime /\ ev.m_Key \in DOMAIN d.m_tDeforms) =>
        \A i \in 1 .. Len(d.m_tDeforms[ev.m_Key]) :
            ((DeformFrames(ev, fTime).value[i] - d.m_tDeforms[ev.m_Key][i]) * fAlpha) % 10 = 0

\* DataInstance::Clone: the buffers are copied, the new instance has no references.
CloneDeforms(d) == [made |-> TRUE, m_tDeforms |-> d.m_tDeforms, m_tDeformReferences |-> <<>>]

InitDeform ==
    /\ deforms = NoDeforms
    /\ evaluators = [e \in EvalIds |-> NoEvaluator]
    /\ clone = NoClone
    /\ IdleFrame /\ IdleOrder /\ IdleEvents /\ IdlePose /\ IdleAux

CreateDeformEvaluator ==
    /\ \E e \in EvalIds, key \in DeformKeys, v \in DeformTimelines :
          /\ evaluators[e] = NoEvaluator
          /\ evaluators' = [evaluators EXCEPT ![e] = [m_Key |-> key, m_v |-> v, m_uLastKeyFrame |-> 0]]
          /\ deforms' = DeformEvaluatorConstruct(deforms, key)
    /\ UNCHANGED <<clone, frameVars, outcome, eventVars, pose, auxVars, lateVars>>

DestroyDeformEvaluator ==
    /\ \E e \in EvalIds :
          /\ evaluators[e] # NoEvaluator
          /\ evaluators' = [evaluators EXCEPT ![e] = NoEvaluator]
          /\ deforms' = DeformEvaluatorDestroy(deforms, evaluators[e].m_Key)
    /\ UNCHANGED <<clone, frameVars, outcome, eventVars, pose, auxVars, lateVars>>

EvaluateDeform ==
    /\ \E e \in EvalIds, fTime \in Times, fAlpha \in Weights :
          /\ evaluators[e] # NoEvaluator
          /\ ExactBlend(deforms, evaluators[e], fTime, fAlpha)
          /\ deforms' = DeformEvaluate(deforms, evaluators[e], fTime, fAlpha)
          /\ evaluators' = [evaluators EXCEPT ![e].m_uLastKeyFrame =
                 IF fTime < evaluators[e].m_v[1].m_fTime THEN @
                 ELSE DeformFrames(evaluators[e], fTime).m_uLastKeyFrame]
    /\ UNCHANGED <<clone, frameVars, outcome, eventVars, pose, auxVars, lateVars>>

Clone ==
    /\ clone' = CloneDeforms(deforms)
    /\ UNCHANGED <<deforms, evaluators, frameVars, outcome, eventVars, pose, auxVars, lateVars>>

NextDeform ==
    \/ CreateDeformEvaluator
    \/ DestroyDeformEvaluator
    \/ EvaluateDeform
    \/ Clone

SpecDeform == InitDeform /\ [][NextDeform]_vars

LiveEvaluators(key) == Cardinality({ e \in EvalIds : evaluators[e].m_Key = key })

(***************************************************************************)
(* C2 as stated: between operations, for every deform key, no live deform  *)
(* evaluator is registered for the key if and only if the instance holds   *)
(* no deform buffer for it; an instance returned by Clone has no evaluator *)
(* registered yet.                                                         *)
(***************************************************************************)
C2_NoEvaluatorIffNoBuffer ==
    /\ \A key \in DeformKeys :
          (LiveEvaluators(key) = 0) <=> (key \notin DOMAIN deforms.m_tDeforms)
    /\ clone.made => DOMAIN clone.m_tDeforms = {}

(***************************************************************************)
(* C2 amended: on the instance the evaluators are registered on, the       *)
(* reference table counts the live evaluators of each key, and a deform    *)
(* buffer exists only for keys with a live evaluator (a live evaluator may *)
(* have no buffer: it is created on the first Evaluate at or after the     *)
(* first key).  A Clone result holds buffers and no references.            *)
(***************************************************************************)
C2_BufferOnlyWhileReferenced ==
    /\ \A key \in DeformKeys :
          /\ (key \in DOMAIN deforms.m_tDeformReferences) <=> (LiveEvaluators(key) > 0)
          /\ (key \in DOMAIN deforms.m_tDeformReferences) =>
                 deforms.m_tDeformReferences[key] = LiveEvaluators(key)
          /\ (key \in DOMAIN deforms.m_tDeforms) => (LiveEvaluators(key) > 0)
    /\ clone.made => DOMAIN clone.m_tDeformReferences = {}

C2_Witness ==
    /\ LiveEvaluators(1) = 0
    /\ LiveEvaluators(2) = 2
    /\ DOMAIN deforms.m_tDeforms = {2}
    /\ clone.made
    /\ DOMAIN clone.m_tDeforms = {1}

(***************************************************************************)
(* Event dispatch.  Key times and the times an EventEvaluator receives are *)
(* editor ticks (0.0001 s); the times a caller passes to ClipInstance are  *)
(* thirds of a tick, which ToEditorTime rounds to the nearest tick.  What  *)
(* a call dispatches is the sequence of key indices handed to the event    *)
(* interface, in call order.                                               *)
(***************************************************************************)
ToEditorTime(fTimeInSeconds) == (fTimeInSeconds + 1) \div 3

EventIds == {1, 2}

\* Event keys as a clip holds them: in time order.
EventTimelines ==
    { v \in SeqsUpTo({ [m_fTime |-> t, m_Id |-> n] : t \in Times, n \in EventIds }, MaxEvents) :
        /\ v # <<>>
        /\ \A i \in 1 .. (Len(v) - 1) : v[i].m_fTime <= v[i + 1].m_fTime }

\* for (; u < uEnd; ++u) { if (m_v[u].m_fTime > fStartTime) break; }
RECURSIVE FirstAfter(_, _, _)
FirstAfter(v, u, fStartTime) ==
    IF u < Len(v) /\ ~(At(v, u).m_fTime > fStartTime) THEN FirstAfter(v, u + 1, fStartTime) ELSE u

\* A dispatch loop that hands the keys of the range to the interface last key first.
RECURSIVE DispatchFrom_LastFirst(_, _, _)
DispatchFrom_LastFirst(v, u, fEndTime) ==
    IF u < Len(v) /\ ~(At(v, u).m_fTime > fEndTime)
    THEN DispatchFrom_LastFirst(v, u + 1, fEndTime) \o <<u>>
    ELSE <<>>

\* for (; u < uEnd; ++u) { if (m_v[u].m_fTime > fEndTime) break; DispatchEvent(...); }
RECURSIVE DispatchFrom(_, _, _)
DispatchFrom(v, u, fEndTime) ==
    IF u < Len(v) /\ ~(At(v, u).m_fTime > fEndTime)
    THEN <<u>> \o DispatchFrom(v, u + 1, fEndTime)
    ELSE <<>>

\* A search for the first key that starts at every range start, time 0 included.
RangeStart_AlwaysSearch(c, fStartTime) == FirstAfter(c.m_v, 0, fStartTime)

\* The index dispatch starts at.
RangeStart(c, fStartTime) ==
    IF fStartTime # 0 \/ c.m_v[1].m_fTime # 0 THEN FirstAfter(c.m_v, 0, fStartTime) ELSE 0

\* An EvaluateRange that dispatches at every weight.
EventEvaluatorEvaluateRange_AnyWeight(c, fStartTime, fEndTime, fAlpha) ==
    IF ~c.bEventInterface THEN <<>>
    ELSE DispatchFrom(c.m_v, RangeStart(c, fStartTime), fEndTime)

\* EventEvaluator::EvaluateRange
EventEvaluatorEvaluateRange(c, fStartTime, fEndTime, fAlpha) ==
    IF fAlpha < c.m_fEventMixThreshold THEN <<>>
    ELSE IF ~c.bEventInterface THEN <<>>
    ELSE DispatchFrom(c.m_v, RangeStart(c, fStartTime), fEndTime)

\* for (; u < uEnd; ++u) { if (m_v[u].m_Id == sEventName) { ...; return true; } }
RECURSIVE FirstNamed(_, _, _)
FirstNamed(v, u, sEventName) ==
    IF u < Len(v) /\ ~(At(v, u).m_Id = sEventName) THEN FirstNamed(v, u + 1, sEventName) ELSE u

\* A query that searches for the name from the first key of the clip.
EventEvaluatorGetNextEventTime_FromFirstKey(c, sEventName, fStartTime, fEventTime) ==
    LET u == FirstNamed(c.m_v, 0, sEventName)
    IN IF u < Len(c.m_v)
       THEN [bFound |-> TRUE, fEventTime |-> At(c.m_v, u).m_fTime]
       ELSE [bFound |-> FALSE, fEventTime |-> fEventTime]

\* EventEvaluator::GetNextEventTime: the returned flag, and the caller's fEventTime after the call.
EventEvaluatorGetNextEventTime(c, sEventName, fStartTime, fEventTime) ==
    LET u == FirstNamed(c.m_v, FirstAfter(c.m_v, 0, fStartTime), sEventName)
    IN IF u < Len(c.m_v)
       THEN [bFound |-> TRUE, fEventTime |-> At(c.m_v, u).m_fTime]
       ELSE [bFound |-> FALSE, fEventTime |-> fEventTime]

\* ClipInstance::GetNextEventTime
ClipInstanceGetNextEventTime(c, sEventName, fStartTime, fEventTime) ==
    EventEvaluatorGetNextEventTime(c, sEventName, ToEditorTime(fStartTime), fEventTime)

\* ClipInstance::EvaluateRange
ClipInstanceEvaluateRange(c, fStartTime, fEndTime, fAlpha) ==
    EventEvaluatorEvaluateRange(c, ToEditorTime(fStartTime), ToEditorTime(fEndTime), fAlpha)

InitEvents ==
    /\ \E v \in EventTimelines, w \in Weights, b \in BOOLEAN :
          clip = [m_v |-> v, m_fEventMixThreshold |-> w, bEventInterface |-> b]
    /\ last = NoCall
    /\ played = [i \in 0 .. (Len(clip.m_v) - 1) |-> 0]
    /\ chain = NoChain
    /\ IdleFrame /\ IdleOrder /\ IdleDeform /\ IdlePose /\ IdleAux

\* One call of the evaluator with any range and weight.
EvaluateRange ==
    /\ \E fStartTime \in Times, fEndTime \in Times, fAlpha \in Weights :
          last' = [made |-> TRUE, fStartTime |-> fStartTime, fEndTime |-> fEndTime, fAlpha |-> fAlpha,
                   dispatched |-> EventEvaluatorEvaluateRange(clip, fStartTime, fEndTime, fAlpha)]
    /\ UNCHANGED <<clip, played, chain, frameVars, outcome, deformVars, pose, auxVars, lateVars>>

NextEvents == EvaluateRange

SpecEvents == InitEvents /\ [][NextEvents]_vars

\* A playback passes the clip consecutive ranges, each starting where the last ended.
CallerTimes == 0 .. (3 * MaxTime)

Occurrences(q, x) == Cardinality({ k \in 1 .. Len(q) : q[k] = x })

PlayRange ==
    /\ chain.uCalls < MaxCalls
    /\ \E fEndTime \in CallerTimes, fAlpha \in Weights :
          /\ chain.fEnd <= fEndTime
          /\ LET q == ClipInstanceEvaluateRange(clip, chain.fEnd, fEndTime, fAlpha)
             IN /\ played' = [i \in DOMAIN played |-> played[i] + Occurrences(q, i)]
                /\ chain' = [uCalls |-> chain.uCalls + 1,
                             fEnd   |-> fEndTime,
                             bHeard |-> chain.bHeard /\ clip.bEventInterface
                                          /\ fAlpha >= clip.m_fEventMixThreshold]
    /\ UNCHANGED <<clip, last, frameVars, outcome, deformVars, pose, auxVars, lateVars>>

NextPlayback == PlayRange

SpecPlayback == InitEvents /\ [][NextPlayback]_vars

EventIndices == 0 .. (Len(clip.m_v) - 1)

(***************************************************************************)
(* C3: a call EvaluateRange(t_prev, t_now, w) with w at or above the mix   *)
(* threshold and an event interface present dispatches exactly the keys    *)
(* with t_prev < t <= t_now, or, when t_prev is 0 and the first key's time *)
(* is 0, exactly the keys with 0 <= t <= t_now.                            *)
(***************************************************************************)
C3_DispatchedIffInRange ==
    (last.made /\ last.fAlpha >= clip.m_fEventMixThreshold /\ clip.bEventInterface) =>
        \A i \in EventIndices :
            (i \in Range(last.dispatched)) <=>
                IF last.fStartTime = 0 /\ clip.m_v[1].m_fTime = 0
                THEN 0 <= At(clip.m_v, i).m_fTime /\ At(clip.m_v, i).m_fTime <= last.fEndTime
                ELSE last.fStartTime < At(clip.m_v, i).m_fTime /\ At(clip.m_v, i).m_fTime <= last.fEndTime

C3_Witness ==
    /\ last.made /\ last.fAlpha >= clip.m_fEventMixThreshold /\ clip.bEventInterface
    /\ Len(clip.m_v) = 2
    /\ clip.m_v[1].m_fTime = 1
    /\ clip.m_v[2].m_fTime = 2
    /\ last.fStartTime = 1
    /\ last.fEndTime = 2
    /\ last.dispatched = <<1>>

(***************************************************************************)
(* C5: over consecutive ranges (0, t1), (t1, t2), ... with 0 <= t1 <= t2   *)
(* <= ..., every event key whose time is at most the last range end has    *)
(* been dispatched exactly once, and no key more than once.                *)
(***************************************************************************)
C5_EachEventOnce ==
    (chain.uCalls > 0 /\ chain.bHeard) =>
        \A i \in EventIndices :
            /\ played[i] <= 1
            /\ (3 * At(clip.m_v, i).m_fTime <= chain.fEnd) => played[i] = 1

(***************************************************************************)
(* DataDefinition::FinalizePoseTasks.  A skeleton is the sequence of the   *)
(* bones' parent indices (the root has -1, every other bone a parent of    *)
(* lower index).  The constraints are taken in their sorted order, one     *)
(* loop iteration per step; a constraint task keeps the m_viBones of the   *)
(* constraint it names.                                                    *)
(***************************************************************************)
PoseBones == 0 .. (NumPoseBones - 1)

Skeletons ==
    { p \in [1 .. NumPoseBones -> -1 .. (NumPoseBones - 2)] :
        /\ p[1] = -1
        /\ \A i \in 2 .. NumPoseBones : 0 <= p[i] /\ p[i] < i - 1 }

\* m_viBones of a constraint: one or two bones other than the root.
BoneChains ==
    { <<b>> : b \in PoseBones \ {0} }
    \cup { q \in { <<a, b>> : a \in PoseBones \ {0}, b \in PoseBones \ {0} } : q[1] # q[2] }

BoneTask(iBone) == [m_iType |-> "kBone", m_iIndex |-> iBone, m_viBones |-> <<>>]
ConstraintTask(type, viBones) == [m_iType |-> type, m_iIndex |-> 0, m_viBones |-> viBones]

\* An EvalBone that appends the bone's task before it looks at the parent.
RECURSIVE EvalBone(_, _, _)
EvalBone_BoneBeforeParent(vBones, iBone, s) ==
    IF iBone < 0 THEN s
    ELSE IF At(s.ab, iBone) THEN s
    ELSE LET own == IF iBone # 0 THEN [s EXCEPT !.rv = Append(@, BoneTask(iBone))] ELSE s
         IN EvalBone(vBones, At(vBones, iBone), [own EXCEPT !.ab = Put(@, iBone, TRUE)])

\* EvalBone: s holds the tracking array ab and the task list rv.
EvalBone(vBones, iBone, s) ==
    IF iBone < 0 THEN s
    ELSE IF At(s.ab, iBone) THEN s
    ELSE LET p == EvalBone(vBones, At(vBones, iBone), s)
             marked == [p EXCEPT !.ab = Put(@, iBone, TRUE)]
         IN IF iBone # 0 THEN [marked EXCEPT !.rv = Append(@, BoneTask(iBone))] ELSE marked

RECURSIVE EvalBones(_, _, _)
EvalBones(vBones, viBones, s) ==
    IF viBones = <<>> THEN s
    ELSE EvalBones(vBones, Tail(viBones), EvalBone(vBones, Head(viBones), s))

\* The local transform loop: the parent of each bone, then the bone.
RECURSIVE EvalBonesLocal(_, _, _)
EvalBonesLocal(vBones, viBones, s) ==
    IF viBones = <<>> THEN s
    ELSE EvalBonesLocal(vBones, Tail(viBones),
            EvalBone(vBones, Head(viBones), EvalBone(vBones, At(vBones, Head(viBones)), s)))

\* EvalResetChildren, its loop from index i on.
RECURSIVE ResetChildrenFrom(_, _, _, _)
ResetChildrenFrom(vBones, iParent, i, ab) ==
    IF i >= Len(vBones) THEN ab
    ELSE IF At(vBones, i) = iParent
    THEN LET inner == IF At(ab, i) THEN ResetChildrenFrom(vBones, i, i + 1, ab) ELSE ab
         IN ResetChildrenFrom(vBones, iParent, i + 1, Put(inner, i, FALSE))
    ELSE ResetChildrenFrom(vBones, iParent, i + 1, ab)

EvalResetChildren(vBones, iParent, ab) == ResetChildrenFrom(vBones, iParent, iParent + 1, ab)

RECURSIVE ResetChildrenOfAll(_, _, _)
ResetChildrenOfAll(vBones, viBones, ab) ==
    IF viBones = <<>> THEN ab
    ELSE ResetChildrenOfAll(vBones, Tail(viBones), EvalResetChildren(vBones, Head(viBones), ab))

MarkAll(viBones, ab) == [i \in 1 .. Len(ab) |-> IF (i - 1) \in Range(viBones) THEN TRUE ELSE ab[i]]

Pushed(s, task) == [s EXCEPT !.rv = Append(@, task)]

\* case PoseTaskType::kIk
PoseTasksIk(vBones, ik, s) ==
    LET ready == EvalBone(vBones, ik.m_viBones[1], EvalBone(vBones, ik.m_iTarget, s))
        withTask == Pushed(ready, ConstraintTask("kIk", ik.m_viBones))
    IN [withTask EXCEPT !.ab =
           Put(EvalResetChildren(vBones, ik.m_viBones[1], @), Last(ik.m_viBones), TRUE)]

\* case PoseTaskType::kPath; viAttachmentBones are the bones of the path
\* attachments found at the target slot of the default skin.
PoseTasksPath(vBones, path, s) ==
    LET ready == EvalBones(vBones, path.m_viBones, EvalBones(vBones, path.viAttachmentBones, s))
        withTask == Pushed(ready, ConstraintTask("kPath", path.m_viBones))
    IN [withTask EXCEPT !.ab = MarkAll(path.m_viBones, ResetChildrenOfAll(vBones, path.m_viBones, @))]

\* case PoseTaskType::kTransform
PoseTasksTransform(vBones, transform, s) ==
    LET targeted == EvalBone(vBones, transform.m_iTarget, s)
        ready == IF transform.m_bLocal
                 THEN EvalBonesLocal(vBones, transform.m_viBones, targeted)
                 ELSE EvalBones(vBones, transform.m_viBones, targeted)
        withTask == Pushed(ready, ConstraintTask("kTransform", transform.m_viBones))
    IN [withTask EXCEPT !.ab = MarkAll(transform.m_viBones, ResetChildrenOfAll(vBones, transform.m_viBones, @))]

\* A closing loop that adds nothing.
PushUntracked_Nothing(i, s) == s

\* The closing loop: a Bone task for every bone but the root that is not tracked.
RECURSIVE PushUntracked(_, _)
PushUntracked(i, s) ==
    IF i >= Len(s.ab) THEN s
    ELSE PushUntracked(i + 1, IF ~At(s.ab, i) THEN Pushed(s, BoneTask(i)) ELSE s)

InitPose ==
    /\ \E vBones \in Skeletons :
          pose = [vBones |-> vBones,
                  ab |-> [i \in 1 .. NumPoseBones |-> FALSE],
                  rv |-> <<>>,
                  uConstraints |-> 0,
                  bFinalized |-> FALSE]
    /\ IdleFrame /\ IdleOrder /\ IdleDeform /\ IdleEvents /\ IdleAux

Stepped(s) ==
    /\ pose' = [pose EXCEPT !.ab = s.ab, !.rv = s.rv, !.uConstraints = @ + 1]
    /\ UNCHANGED <<frameVars, outcome, deformVars, eventVars, auxVars, lateVars>>

TakeIk ==
    /\ ~pose.bFinalized /\ pose.uConstraints < MaxConstraints
    /\ \E iTarget \in PoseBones, viBones \in BoneChains :
          Stepped(PoseTasksIk(pose.vBones, [m_iTarget |-> iTarget, m_viBones |-> viBones], pose))

TakePath ==
    /\ ~pose.bFinalized /\ pose.uConstraints < MaxConstraints
    /\ \E viAttachmentBones \in {<<>>} \cup { <<b>> : b \in PoseBones }, viBones \in BoneChains :
          Stepped(PoseTasksPath(pose.vBones,
                    [viAttachmentBones |-> viAttachmentBones, m_viBones |-> viBones], pose))

TakeTransform ==
    /\ ~pose.bFinalized /\ pose.uConstraints < MaxConstraints
    /\ \E iTarget \in PoseBones, bLocal \in BOOLEAN, viBones \in BoneChains :
          Stepped(PoseTasksTransform(pose.vBones,
                    [m_iTarget |-> iTarget, m_bLocal |-> bLocal, m_viBones |-> viBones], pose))

FinishPoseTasks ==
    /\ ~pose.bFinalized
    /\ pose' = [pose EXCEPT !.rv = PushUntracked(1, pose).rv, !.bFinalized = TRUE]
    /\ UNCHANGED <<frameVars, outcome, deformVars, eventVars, auxVars, lateVars>>

NextPose ==
    \/ TakeIk
    \/ TakePath
    \/ TakeTransform
    \/ FinishPoseTasks

SpecPose == InitPose /\ [][NextPose]_vars

\* The bones a task of the list poses when PoseSkinningPalette runs it.
PosedBy(task) == IF task.m_iType = "kBone" THEN {task.m_iIndex} ELSE Range(task.m_viBones)

TasksPosing(iBone) == { k \in 1 .. Len(pose.rv) : iBone \in PosedBy(pose.rv[k]) }

(***************************************************************************)
(* C8 as stated: in the finished pose-task list every bone other than the  *)
(* root is posed by exactly one task.                                      *)
(***************************************************************************)
C8_EveryBoneExactlyOnce ==
    pose.bFinalized => \A iBone \in PoseBones \ {0} : Cardinality(TasksPosing(iBone)) = 1

(***************************************************************************)
(* C8 amended: in the finished pose-task list every bone other than the    *)
(* root is posed by at least one task, a Bone task or a constraint task    *)
(* that manipulates it; when the definition has no constraint, by exactly  *)
(* one.                                                                    *)
(***************************************************************************)
C8_EveryBoneAtLeastOnce ==
    pose.bFinalized =>
        \A iBone \in PoseBones \ {0} :
            /\ Cardinality(TasksPosing(iBone)) >= 1
            /\ pose.uConstraints = 0 => Cardinality(TasksPosing(iBone)) = 1

C8_Witness ==
    /\ pose.bFinalized
    /\ pose.uConstraints > 0
    /\ \E iBone \in PoseBones \ {0} : Cardinality(TasksPosing(iBone)) >= 2
    /\ \E iBone \in PoseBones \ {0} :
          \A k \in TasksPosing(iBone) : pose.rv[k].m_iType # "kBone"

(***************************************************************************)
(* C9: for every Bone task of the finished list, the parent of its bone is *)
(* the root or is posed by a task at an earlier position, a Bone task or a *)
(* constraint task that manipulates the parent.                            *)
(***************************************************************************)
C9_ParentPosedBeforeBone ==
    pose.bFinalized =>
        \A k \in 1 .. Len(pose.rv) :
            pose.rv[k].m_iType = "kBone" =>
                LET iParent == At(pose.vBones, pose.rv[k].m_iIndex)
                IN iParent = 0 \/ \E j \in TasksPosing(iParent) : j < k

C9_Witness ==
    /\ pose.bFinalized
    /\ \E k \in 1 .. Len(pose.rv) :
          /\ pose.rv[k].m_iType = "kBone"
          /\ At(pose.vBones, pose.rv[k].m_iIndex) # 0
          /\ \A j \in TasksPosing(At(pose.vBones, pose.rv[k].m_iIndex)) :
                pose.rv[j].m_iType # "kBone" /\ j < k

(***************************************************************************)
(* One frame on a fresh instance in which two evaluators are called, run   *)
(* once as E1 then E2 and once as E2 then E1, each followed by ApplyCache. *)
(* Both evaluators are constructed on the instance before the frame, so a  *)
(* deform evaluator has registered its key; a deform evaluator writes the  *)
(* instance's deform table during its call, the others write the cache.    *)
(***************************************************************************)
DrawOrderCalls ==
    { [kind |-> "drawOrder", v |-> v, index |-> 0, fTime |-> t, fAlpha |-> 10,
       bBlendDiscreteState |-> TRUE] :
        v \in { x \in DrawOrderTimelines : Len(x) = 1 }, t \in Times }

AttachmentCalls ==
    { [kind |-> "attachment", v |-> v, index |-> i, fTime |-> t, fAlpha |-> w,
       bBlendDiscreteState |-> b] :
        v \in AttachmentTimelines, i \in SlotIndices, t \in Times, w \in Weights, b \in BOOLEAN }

RotationCalls ==
    { [kind |-> "rotation", v |-> v, index |-> 0, fTime |-> t, fAlpha |-> w,
       bBlendDiscreteState |-> TRUE] :
        v \in RotationTimelines, t \in Times, w \in Weights }

IkCalls ==
    { [kind |-> "ik", v |-> v, index |-> 0, fTime |-> t, fAlpha |-> w,
       bBlendDiscreteState |-> TRUE] :
        v \in IkTimelines, t \in Times, w \in Weights }

\* index is the deform key of the evaluator.  The vertex values of the
\* timelines are 0 and 20, so every weighted step is a whole number.
DeformCalls ==
    { [kind |-> "deform", v |-> v, index |-> key, fTime |-> t, fAlpha |-> w,
       bBlendDiscreteState |-> TRUE] :
        v \in DeformTimelines, key \in DeformKeys, t \in Times, w \in Weights }

EvaluatorCalls ==
    DrawOrderCalls \cup AttachmentCalls \cup RotationCalls \cup IkCalls \cup DeformCalls

\* IEvaluator::Evaluate, dispatched on the evaluator's class.
Evaluate(d, c) ==
    CASE c.kind = "drawOrder"  -> DrawOrderEvaluate(d, c.v, c.fTime)
      [] c.kind = "attachment" -> SlotAttachmentEvaluate(d, c.v, c.index, c.fTime, c.fAlpha, c.bBlendDiscreteState)
      [] c.kind = "rotation"   -> RotationEvaluate(d, c.v, c.index, c.fTime, c.fAlpha)
      [] c.kind = "ik"         -> IkEvaluate(d, c.v, c.index, c.fTime, c.fAlpha)
      [] c.kind = "deform"     ->
            DeformEvaluate(d, [m_Key |-> c.index, m_v |-> c.v, m_uLastKeyFrame |-> 0],
                           c.fTime, c.fAlpha)

\* The constructor of the evaluator of a call: only DeformEvaluator's touches the instance.
RegisterEvaluator(d, c) ==
    IF c.kind = "deform" THEN DeformEvaluatorConstruct(d, c.index) ELSE d

\* A fresh instance, with its deform tables, on which E1 and E2 have been constructed.
ConstructBoth(E1, E2) ==
    RegisterEvaluator(RegisterEvaluator(InternalConstruct @@ NoDeforms, E1), E2)

InitOrder ==
    /\ outcome = NoOutcome
    /\ IdleFrame /\ IdleDeform /\ IdleEvents /\ IdlePose /\ IdleAux

EvaluateBothOrders ==
    /\ ~outcome.ran
    /\ \E E1 \in EvaluatorCalls, E2 \in EvaluatorCalls :
          LET d0  == ConstructBoth(E1, E2)
              d12 == Evaluate(Evaluate(d0, E1), E2)
              d21 == Evaluate(Evaluate(d0, E2), E1)
          IN \E s12 \in QuickSort(d12.m_pCache.m_vAttachments),
                s21 \in QuickSort(d21.m_pCache.m_vAttachments) :
                outcome' = [ran    |-> TRUE,
                            first  |-> Evaluate(d0, E1).m_pCache,
                            second |-> Evaluate(d0, E2).m_pCache,
                            firstDeforms  |-> Evaluate(d0, E1).m_tDeforms,
                            secondDeforms |-> Evaluate(d0, E2).m_tDeforms,
                            e1e2   |-> ApplyCacheWith(d12, s12),
                            e2e1   |-> ApplyCacheWith(d21, s21)]
    /\ UNCHANGED <<frameVars, deformVars, eventVars, pose, auxVars, lateVars>>

NextOrder == EvaluateBothOrders

SpecOrder == InitOrder /\ [][NextOrder]_vars

(***************************************************************************)
(* C4 as stated: two evaluators called in either order before the commit   *)
(* leave the same post-commit instance state (slot attachment ids, draw    *)
(* order, constraint flags, bone values, deform buffers).                  *)
(***************************************************************************)
SameCommitted ==
    /\ outcome.e1e2.m_vSlots = outcome.e2e1.m_vSlots
    /\ outcome.e1e2.m_vDrawOrder = outcome.e2e1.m_vDrawOrder
    /\ outcome.e1e2.m_vIk = outcome.e2e1.m_vIk
    /\ outcome.e1e2.m_vBones = outcome.e2e1.m_vBones
    /\ outcome.e1e2.m_tDeforms = outcome.e2e1.m_tDeforms

C4_AnyOrderSameCommit == outcome.ran => SameCommitted

\* Both calls wrote a draw order into the cache, and not the same one.
BothWriteDrawOrder ==
    /\ outcome.first.m_vDrawOrder # <<>>
    /\ outcome.second.m_vDrawOrder # <<>>
    /\ outcome.first.m_vDrawOrder # outcome.second.m_vDrawOrder

\* The calls accumulated entries of equal weight for one slot with different ids.
TiedAttachments ==
    \E a \in Range(outcome.first.m_vAttachments), b \in Range(outcome.second.m_vAttachments) :
        a.m_iSlot = b.m_iSlot /\ a.m_fAlpha = b.m_fAlpha /\ a.m_AttachmentId # b.m_AttachmentId

\* Both calls wrote the deform buffer of one key, and not the same vertex values.
BothWriteDeform ==
    \E key \in (DOMAIN outcome.firstDeforms) \cap (DOMAIN outcome.secondDeforms) :
        outcome.firstDeforms[key] # outcome.secondDeforms[key]

(***************************************************************************)
(* C4 amended: the call order of two evaluators does not change the        *)
(* committed state unless both wrote a (different) draw order, where the   *)
(* later call's order is the one committed, or both accumulated attachment *)
(* entries of equal weight for the same slot with different ids, where the *)
(* sort decides, or both are deform evaluators that wrote different vertex *)
(* values to the buffer of one deform key, where the later call blends     *)
(* over, or replaces, what the earlier call wrote.                         *)
(***************************************************************************)
C4_OrderIndependentButForTies ==
    (outcome.ran /\ ~BothWriteDrawOrder /\ ~TiedAttachments /\ ~BothWriteDeform) => SameCommitted

C4_Witness ==
    /\ outcome.ran
    /\ outcome.first.m_vAttachments = << Entry(7, 2, 0) >>
    /\ outcome.second.m_vAttachments = << Entry(3, 1, 0) >>
    /\ At(outcome.e1e2.m_vSlots, 0).m_AttachmentId = 2
    /\ At(outcome.e2e1.m_vSlots, 0).m_AttachmentId = 2

(***************************************************************************)
(* Frames of draw-order evaluators.  drawn keeps what the evaluators of    *)
(* the frame found: how many found a key active (a call before the first   *)
(* key of its timeline finds none), whether one of those keys had an empty *)
(* offset list, and the last non-empty offset list among them.             *)
(***************************************************************************)
InitDrawOrder ==
    /\ IdleFrame /\ IdleOrder /\ IdleDeform /\ IdleEvents /\ IdlePose /\ IdleAux

\* The keys of the frame in progress (a commit closes the frame).
FrameKeys == IF phase = "committed" THEN NoDrawn ELSE drawn

EvaluateDrawOrderKey ==
    /\ evals < MaxEvals
    /\ \E v \in DrawOrderTimelines, fTime \in Times :
          /\ inst' = DrawOrderEvaluate(inst, v, fTime)
          /\ drawn' = IF fTime < v[1].m_fTime THEN FrameKeys
                      ELSE LET offs == At(v, ActiveKey(v, 0, fTime)).m_vOffsets
                           IN [uKeys     |-> FrameKeys.uKeys + 1,
                               bEmptyKey |-> FrameKeys.bEmptyKey \/ offs = <<>>,
                               vWritten  |-> IF offs = <<>> THEN FrameKeys.vWritten ELSE offs]
    /\ phase' = "evaluated"
    /\ applied' = NoFrame
    /\ evals' = evals + 1
    /\ UNCHANGED <<kind, target, outcome, deformVars, eventVars, pose, life, asked, defn, built, twin, lateVars>>

CommitDrawOrder ==
    /\ \E sorted \in QuickSort(inst.m_pCache.m_vAttachments) :
          inst' = ApplyCacheWith(inst, sorted)
    /\ phase' = "committed"
    /\ applied' = [cache |-> inst.m_pCache, before |-> inst]
    /\ evals' = 0
    /\ drawn' = FrameKeys
    /\ UNCHANGED <<kind, target, outcome, deformVars, eventVars, pose, life, asked, defn, built, twin, lateVars>>

NextDrawOrder ==
    \/ EvaluateDrawOrderKey
    \/ CommitDrawOrder

SpecDrawOrder == InitDrawOrder /\ [][NextDrawOrder]_vars

\* The positions an offset list names and the slots it lists.
ListedPositions(offs) == { GetSlotIndex(offs[k].m_Slot) + offs[k].m_iOffset : k \in 1 .. Len(offs) }

ListedSlots(offs) == { GetSlotIndex(offs[k].m_Slot) : k \in 1 .. Len(offs) }

\* order has every listed slot at its slot index plus its offset, and the
\* other positions hold the unlisted slots, increasing with the position.
PlacedAndFilled(order, offs) ==
    LET n == Len(order)
        free == (0 .. (n - 1)) \ ListedPositions(offs)
    IN /\ \A k \in 1 .. Len(offs) :
             At(order, GetSlotIndex(offs[k].m_Slot) + offs[k].m_iOffset) = GetSlotIndex(offs[k].m_Slot)
       /\ { At(order, i) : i \in free } = (0 .. (n - 1)) \ ListedSlots(offs)
       /\ \A i, j \in free : i < j => At(order, i) < At(order, j)

(***************************************************************************)
(* C11.  The draw order committed after one draw-order evaluator found a   *)
(* key with a non-empty offset list active has each listed slot s at       *)
(* position s + offset and the unlisted slots, in increasing slot index,   *)
(* at the remaining positions in increasing position; built for 4 slots    *)
(* from the offsets [(slot 1, +2)] the draw order is [0, 2, 3, 1].         *)
(***************************************************************************)
C11_ListedPlacedRestFilled ==
    /\ (phase = "committed" /\ drawn.uKeys = 1 /\ drawn.vWritten # <<>>) =>
           PlacedAndFilled(inst.m_vDrawOrder, drawn.vWritten)
    /\ BuildDrawOrder(4, <<[m_Slot |-> 1, m_iOffset |-> 2]>>).drawOrder = <<0, 2, 3, 1>>

(***************************************************************************)
(* C12.  When a draw-order evaluator of the frame found a key with an      *)
(* empty offset list active, the draw order committed for that frame is    *)
(* the identity [0, 1, ..., num_slots - 1].                                *)
(***************************************************************************)
C12_EmptyOffsetsCommitIdentity ==
    (phase = "committed" /\ drawn.bEmptyKey) =>
        inst.m_vDrawOrder = SetDefaultDrawOrder(NumSlots)

(***************************************************************************)
(* The life of a deform buffer.  The deform evaluators of one instance are *)
(* constructed, evaluated at full weight and destroyed; life records the   *)
(* operation that acted last (its key, and whether an Evaluate was called  *)
(* with a time before the evaluator's first key), the keys an evaluator    *)
(* has evaluated since their registrations last rose from zero, and the    *)
(* keys whose buffer has been released at least once.                      *)
(***************************************************************************)
InitLifecycle ==
    /\ deforms = NoDeforms
    /\ evaluators = [e \in EvalIds |-> NoEvaluator]
    /\ clone = NoClone
    /\ IdleFrame /\ IdleOrder /\ IdleEvents /\ IdlePose /\ IdleAux

\* The keys whose buffer the step from d to e released.
Released(d, e) == (DOMAIN d.m_tDeforms) \ (DOMAIN e.m_tDeforms)

ConstructEvaluator ==
    /\ \E e \in EvalIds, key \in DeformKeys, v \in DeformTimelines :
          /\ evaluators[e] = NoEvaluator
          /\ evaluators' = [evaluators EXCEPT ![e] = [m_Key |-> key, m_v |-> v, m_uLastKeyFrame |-> 0]]
          /\ deforms' = DeformEvaluatorConstruct(deforms, key)
          /\ life' = [life EXCEPT !.op = "construct", !.key = key, !.bBefore = FALSE]
    /\ UNCHANGED <<clone, frameVars, outcome, eventVars, pose, drawn, asked, defn, built, twin, lateVars>>

DestroyEvaluator ==
    /\ \E e \in EvalIds :
          /\ evaluators[e] # NoEvaluator
          /\ evaluators' = [evaluators EXCEPT ![e] = NoEvaluator]
          /\ deforms' = DeformEvaluatorDestroy(deforms, evaluators[e].m_Key)
          /\ life' = [op |-> "destroy", key |-> evaluators[e].m_Key, bBefore |-> FALSE,
                      evaluated |-> IF evaluators[e].m_Key \in DOMAIN deforms'.m_tDeformReferences
                                    THEN life.evaluated
                                    ELSE life.evaluated \ {evaluators[e].m_Key},
                      released |-> life.released \cup Released(deforms, deforms')]
    /\ UNCHANGED <<clone, frameVars, outcome, eventVars, pose, drawn, asked, defn, built, twin, lateVars>>

EvaluateEvaluator ==
    /\ \E e \in EvalIds, fTime \in Times :
          /\ evaluators[e] # NoEvaluator
          /\ deforms' = DeformEvaluate(deforms, evaluators[e], fTime, 10)
          /\ evaluators' = [evaluators EXCEPT ![e].m_uLastKeyFrame =
                 IF fTime < evaluators[e].m_v[1].m_fTime THEN @
                 ELSE DeformFrames(evaluators[e], fTime).m_uLastKeyFrame]
          /\ life' = [op |-> "evaluate", key |-> evaluators[e].m_Key,
                      bBefore |-> fTime < evaluators[e].m_v[1].m_fTime,
                      evaluated |-> life.evaluated \cup {evaluators[e].m_Key},
                      released |-> life.released \cup Released(deforms, deforms')]
    /\ UNCHANGED <<clone, frameVars, outcome, eventVars, pose, drawn, asked, defn, built, twin, lateVars>>

NextLifecycle ==
    \/ ConstructEvaluator
    \/ DestroyEvaluator
    \/ EvaluateEvaluator

SpecLifecycle == InitLifecycle /\ [][NextLifecycle]_vars

(***************************************************************************)
(* C13 as stated: the deform buffer of a key exists exactly from the first *)
(* Evaluate of an evaluator of the key until the last live evaluator of    *)
(* the key is destroyed.                                                   *)
(***************************************************************************)
C13_BufferFromFirstEvaluate ==
    \A key \in DeformKeys : (key \in DOMAIN deforms.m_tDeforms) <=> (key \in life.evaluated)

(***************************************************************************)
(* C13 amended: an Evaluate at or after the evaluator's first key leaves   *)
(* the buffer of its key in existence (creating it when absent); the       *)
(* buffer is released by the destruction of the last live evaluator of the *)
(* key and by an Evaluate before the first key made by the only live       *)
(* evaluator of the key; every other step leaves each buffer's existence   *)
(* as it was.                                                              *)
(***************************************************************************)
C13_BufferLifecycle ==
    [][\A key \in DeformKeys :
          (key \in DOMAIN deforms'.m_tDeforms) <=>
             IF life'.key # key THEN key \in DOMAIN deforms.m_tDeforms
             ELSE IF life'.op = "evaluate" /\ ~life'.bBefore THEN TRUE
             ELSE IF life'.op = "evaluate" /\ LiveEvaluators(key) = 1 THEN FALSE
             ELSE IF life'.op = "destroy" /\ LiveEvaluators(key) = 1 THEN FALSE
             ELSE key \in DOMAIN deforms.m_tDeforms]_vars

\* A buffer created again after a release, by a later evaluator's first Evaluate.
C13_Witness ==
    /\ life.op = "evaluate" /\ ~life.bBefore
    /\ life.key \in life.released
    /\ life.key \in DOMAIN deforms.m_tDeforms
    /\ LiveEvaluators(life.key) = 1

(***************************************************************************)
(* C14: within every EvaluateRange call the key indices handed to the      *)
(* event interface are strictly increasing.                                *)
(***************************************************************************)
C14_DispatchedInKeyOrder ==
    last.made =>
        \A j \in 1 .. (Len(last.dispatched) - 1) : last.dispatched[j] < last.dispatched[j + 1]

\* A call that dispatched two keys that carry the same time.
C14_Witness ==
    /\ last.made
    /\ Len(last.dispatched) = 2
    /\ clip.m_v[1].m_fTime = clip.m_v[2].m_fTime
    /\ clip.m_v[1].m_Id # clip.m_v[2].m_Id

(***************************************************************************)
(* C19: a call EvaluateRange(t0, t1, w) with w strictly below the clip's   *)
(* event mix threshold dispatches no event.                                *)
(***************************************************************************)
C19_BelowThresholdDispatchesNothing ==
    (last.made /\ last.fAlpha < clip.m_fEventMixThreshold) => last.dispatched = <<>>

\* A call below the threshold whose range holds a key, with an event interface present.
C19_Witness ==
    /\ last.made /\ last.fAlpha < clip.m_fEventMixThreshold
    /\ clip.bEventInterface
    /\ \E i \in EventIndices :
          last.fStartTime < At(clip.m_v, i).m_fTime /\ At(clip.m_v, i).m_fTime <= last.fEndTime
    /\ last.dispatched = <<>>

(***************************************************************************)
(* Queries for the next event.  A caller asks a clip instance for the next *)
(* event of a name after a start time given in thirds of a tick; the       *)
(* answer carries times in ticks.                                          *)
(***************************************************************************)
GetNextEventTime ==
    /\ \E sEventName \in EventIds, fStartTime \in CallerTimes :
          LET r == ClipInstanceGetNextEventTime(clip, sEventName, fStartTime, asked.fEventTime)
          IN asked' = [made |-> TRUE, sEventName |-> sEventName, fStartTime |-> fStartTime,
                       bFound |-> r.bFound, fEventTime |-> r.fEventTime]
    /\ UNCHANGED <<clip, last, played, chain, frameVars, outcome, deformVars, pose, drawn, life, defn, built, twin, lateVars>>

NextQuery == GetNextEventTime

SpecQuery == InitEvents /\ [][NextQuery]_vars

\* The keys of the asked name whose time, in thirds of a tick, is after fStartTime.
NamedAfter(fStartTime) ==
    { i \in EventIndices : At(clip.m_v, i).m_Id = asked.sEventName
                           /\ 3 * At(clip.m_v, i).m_fTime > fStartTime }

\* The answer is the earliest key of K, and none exactly when K is empty.
AnswersEarliestOf(K) ==
    /\ asked.bFound <=> (K # {})
    /\ asked.bFound =>
          /\ \E i \in K : At(clip.m_v, i).m_fTime = asked.fEventTime
          /\ \A i \in K : asked.fEventTime <= At(clip.m_v, i).m_fTime

(***************************************************************************)
(* C20 as stated: GetNextEventTime(name, t_start) returns the time of the  *)
(* earliest event key of that name whose time is strictly greater than     *)
(* t_start, and reports none exactly when the clip has no such key.        *)
(***************************************************************************)
C20_EarliestAfterStart ==
    asked.made => AnswersEarliestOf(NamedAfter(asked.fStartTime))

(***************************************************************************)
(* C20 amended: the same with t_start rounded to the nearest tick (the     *)
(* 0.0001 s grid of key times) before the comparison.                      *)
(***************************************************************************)
C20_EarliestAfterRoundedStart ==
    asked.made => AnswersEarliestOf(NamedAfter(3 * ToEditorTime(asked.fStartTime)))

\* A query that passes over an earlier key of the name and answers with a later one.
C20_Witness ==
    /\ asked.made /\ asked.bFound
    /\ Len(clip.m_v) = 2
    /\ clip.m_v[1].m_Id = asked.sEventName /\ clip.m_v[2].m_Id = asked.sEventName
    /\ clip.m_v[1].m_fTime = 1 /\ clip.m_v[2].m_fTime = 2
    /\ asked.fStartTime = 3
    /\ asked.fEventTime = 2

(***************************************************************************)
(* Finalization of a deserialized definition                               *)
(* (DataDefinition::CustomDeserializeType).  Ids are numbers: bone i has   *)
(* the id i + 1, slot s the id s + 1, the one constraint of the definition *)
(* the id 1; EmptyId is the empty HString and UnknownBoneId and            *)
(* UnknownSlotId are ids nothing in the definition carries.  A lookup      *)
(* table is a function from ids to indices.  The definitions carry no      *)
(* linked meshes, so FinalizeSkins has nothing to resolve.                 *)
(***************************************************************************)
EmptyId == 0

DefBoneIds == 1 .. NumDefBones
UnknownBoneId == NumDefBones + 1
SlotIds == 1 .. NumSlots
UnknownSlotId == NumSlots + 1

\* BoneDefinition as deserialized: m_iParent is -1 until FinalizeBones resolves it.
RawBones ==
    { [i \in 1 .. NumDefBones |-> [m_Id |-> i, m_ParentId |-> f[i], m_iParent |-> -1]] :
        f \in [1 .. NumDefBones -> {EmptyId} \cup DefBoneIds \cup {UnknownBoneId}] }

\* IkDefinition, PathDefinition, TransformConstraintDefinition as deserialized.
RawConstraint(targetId, vBoneIds) ==
    [m_Id |-> 1, m_TargetId |-> targetId, m_vBoneIds |-> vBoneIds, m_iTarget |-> -1, m_viBones |-> <<>>]

RawConstraints(targetIds) ==
    { RawConstraint(targetId, vBoneIds) :
        targetId \in targetIds, vBoneIds \in SeqsUpTo(DefBoneIds \cup {UnknownBoneId}, MaxChain) }

\* The skins table as far as FinalizePoseTasks reads it: the default skin, if
\* there is one, maps slot ids to the types of the attachments at the slot.
kDefaultSkin == 1

AttachmentTypeSets == {{}, {"kPath"}, {"kBitmap"}, {"kPath", "kBitmap"}}

RawSkins ==
    {<<>>} \cup
    { [k \in {kDefaultSkin} |-> [s \in slots |-> types]] :
        slots \in {{}, {1}, SlotIds}, types \in AttachmentTypeSets }

\* A default skin with a path attachment at every slot.
PathSkins == [k \in {kDefaultSkin} |-> [s \in SlotIds |-> {"kPath"}]]

RawSlots(boneId) == [s \in 1 .. NumSlots |-> [m_Id |-> s, m_BoneId |-> boneId, m_iBone |-> -1]]

\* Lookup::GetValue leaves the output alone when the id is not in the table.
GetValue(t, id, iOld) == IF id \in DOMAIN t THEN t[id] ELSE iOld

\* The table after the first n elements of v were inserted: id to index.
InsertFirst(v, n) == [id \in { v[i].m_Id : i \in 1 .. n } |->
                        (CHOOSE i \in 1 .. n : v[i].m_Id = id) - 1]

\* The table the insert loop of FinalizeBones fills.
InsertAll(v) == InsertFirst(v, Len(v))

\* The second loop of FinalizeBones from bone i on.  SEOUL_VERIFY stops the
\* program in a build with assertions (bVerify) and has no effect otherwise.
RECURSIVE ResolveParents(_, _, _, _)
ResolveParents(v, i, tBones, bVerify) ==
    IF i >= Len(v) THEN [status |-> "true", v |-> v]
    ELSE IF At(v, i).m_ParentId = EmptyId THEN ResolveParents(v, i + 1, tBones, bVerify)
    ELSE IF At(v, i).m_ParentId \notin DOMAIN tBones /\ bVerify THEN [status |-> "asserted", v |-> v]
    ELSE LET iParent == GetValue(tBones, At(v, i).m_ParentId, At(v, i).m_iParent)
             w == Put(v, i, [At(v, i) EXCEPT !.m_iParent = iParent])
         IN IF iParent >= i THEN [status |-> "false", v |-> w]
            ELSE ResolveParents(w, i + 1, tBones, bVerify)

\* DataDefinition::FinalizeBones
FinalizeBones(d, bVerify) ==
    LET tBones == InsertAll(d.m_vBones)
        r == ResolveParents(d.m_vBones, 0, tBones, bVerify)
    IN [status |-> r.status, d |-> [d EXCEPT !.m_tBones = tBones, !.m_vBones = r.v]]

\* for (u = 0; u < uSize; ++u) { if (!m_tBones.GetValue(m_vBoneIds[u], m_viBones[u])) return false; }
RECURSIVE ResolveChain(_, _, _)
ResolveChain(c, u, tBones) ==
    IF u >= Len(c.m_vBoneIds) THEN [status |-> "true", c |-> c]
    ELSE IF At(c.m_vBoneIds, u) \notin DOMAIN tBones THEN [status |-> "false", c |-> c]
    ELSE ResolveChain([c EXCEPT !.m_viBones = Put(@, u, tBones[At(c.m_vBoneIds, u)])], u + 1, tBones)

\* The body of the loop the three constraint Finalize functions share:
\* the target in tTargets, at least one chain bone, every chain bone in tBones.
ResolveConstraint(c, tTargets, tBones) ==
    IF c.m_TargetId \notin DOMAIN tTargets THEN [status |-> "false", c |-> c]
    ELSE IF Len(c.m_vBoneIds) < 1
    THEN [status |-> "false", c |-> [c EXCEPT !.m_iTarget = tTargets[c.m_TargetId]]]
    ELSE ResolveChain([c EXCEPT !.m_iTarget = tTargets[c.m_TargetId],
                                !.m_viBones = [u \in 1 .. Len(c.m_vBoneIds) |-> 0]], 0, tBones)

\* The constraints of a vector from index i on, stopping at the first that fails.
\* Each constraint is inserted in its table before it is resolved: n counts the
\* constraints inserted when the loop ends.
RECURSIVE ResolveConstraints(_, _, _, _)
ResolveConstraints(v, i, tTargets, tBones) ==
    IF i >= Len(v) THEN [status |-> "true", v |-> v, n |-> Len(v)]
    ELSE LET r == ResolveConstraint(At(v, i), tTargets, tBones)
         IN IF r.status = "false" THEN [status |-> "false", v |-> Put(v, i, r.c), n |-> i + 1]
            ELSE ResolveConstraints(Put(v, i, r.c), i + 1, tTargets, tBones)

\* An IK finalization that reports success whatever it resolved.
FinalizeIk_AcceptUnresolved(d) ==
    [status |-> "true", d |-> [d EXCEPT !.m_tIk = InsertAll(d.m_vIk)]]

\* DataDefinition::FinalizeIk
FinalizeIk(d) ==
    LET r == ResolveConstraints(d.m_vIk, 0, d.m_tBones, d.m_tBones)
    IN [status |-> r.status, d |-> [d EXCEPT !.m_tIk = InsertFirst(r.v, r.n), !.m_vIk = r.v]]

\* for (i = 0; i < u; ++i) { m_tSlots.Insert(slot.m_Id, i);
\*   if (!m_tBones.GetValue(slot.m_BoneId, slot.m_iBone)) return false; }
\* n counts the slots inserted when the loop ends.
RECURSIVE ResolveSlots(_, _, _)
ResolveSlots(v, i, tBones) ==
    IF i >= Len(v) THEN [status |-> "true", v |-> v, n |-> Len(v)]
    ELSE IF At(v, i).m_BoneId \notin DOMAIN tBones THEN [status |-> "false", v |-> v, n |-> i + 1]
    ELSE ResolveSlots(Put(v, i, [At(v, i) EXCEPT !.m_iBone = tBones[At(v, i).m_BoneId]]), i + 1, tBones)

\* DataDefinition::FinalizeSlots
FinalizeSlots(d) ==
    LET r == ResolveSlots(d.m_vSlots, 0, d.m_tBones)
    IN [status |-> r.status, d |-> [d EXCEPT !.m_tSlots = InsertFirst(r.v, r.n), !.m_vSlots = r.v]]

\* DataDefinition::FinalizePaths
FinalizePaths(d) ==
    LET r == ResolveConstraints(d.m_vPaths, 0, d.m_tSlots, d.m_tBones)
    IN [status |-> r.status, d |-> [d EXCEPT !.m_tPaths = InsertFirst(r.v, r.n), !.m_vPaths = r.v]]

\* DataDefinition::FinalizeTransforms
FinalizeTransforms(d) ==
    LET r == ResolveConstraints(d.m_vTransforms, 0, d.m_tBones, d.m_tBones)
    IN [status |-> r.status, d |-> [d EXCEPT !.m_tTransforms = InsertFirst(r.v, r.n), !.m_vTransforms = r.v]]

\* The path case of FinalizePoseTasks for one path constraint: false when there
\* is no default skin, when the skin has no entry for the target slot, or when
\* an attachment of that entry is not a path attachment.
PathResolves(tSkins, path) ==
    /\ kDefaultSkin \in DOMAIN tSkins
    /\ path.m_TargetId \in DOMAIN tSkins[kDefaultSkin]
    /\ \A type \in tSkins[kDefaultSkin][path.m_TargetId] : type = "kPath"

\* What FinalizePoseTasks returns: false only for a path constraint that does not
\* resolve (the task list it builds is the subject of the pose-task section).
FinalizePoseTasks(d) ==
    [status |-> IF \A i \in 1 .. Len(d.m_vPaths) : PathResolves(d.m_tSkins, d.m_vPaths[i])
                THEN "true" ELSE "false",
     d |-> d]

\* The Finalize calls of CustomDeserializeType, in order.
FinalizeStages == <<"FinalizeBones", "FinalizeIk", "FinalizeSlots", "FinalizePaths",
                    "FinalizeTransforms", "FinalizePoseTasks", "done">>

StageAfter(stage) == FinalizeStages[(CHOOSE k \in 1 .. Len(FinalizeStages) : FinalizeStages[k] = stage) + 1]

\* The definition after a Finalize function returned r at the stage it is in.
Finalized(r) ==
    [r.d EXCEPT !.stage = IF r.status = "true" THEN StageAfter(defn.stage)
                          ELSE IF r.status = "false" THEN "failed" ELSE "asserted",
                !.stoppedIn = IF r.status = "true" THEN "" ELSE defn.stage]

InitFinalize ==
    /\ \E vBones \in RawBones, type \in {"ik", "path", "transform"},
          slotBoneId \in {1, UnknownBoneId}, tSkins \in RawSkins :
          \E c \in RawConstraints(IF type = "path" THEN SlotIds \cup {UnknownSlotId}
                                  ELSE DefBoneIds \cup {UnknownBoneId}) :
             /\ type # "path" => tSkins = PathSkins
             /\ defn = [stage |-> "FinalizeBones", stoppedIn |-> "",
                        m_vBones |-> vBones, m_tBones |-> <<>>,
                        m_vSlots |-> RawSlots(slotBoneId), m_tSlots |-> <<>>,
                        m_vIk |-> IF type = "ik" THEN <<c>> ELSE <<>>, m_tIk |-> <<>>,
                        m_vPaths |-> IF type = "path" THEN <<c>> ELSE <<>>, m_tPaths |-> <<>>,
                        m_vTransforms |-> IF type = "transform" THEN <<c>> ELSE <<>>, m_tTransforms |-> <<>>,
                        m_tSkins |-> tSkins]
    /\ drawn = NoDrawn /\ life = NoLife /\ asked = NoQuery /\ built = NoInstance /\ twin = NoTwin
    /\ IdleFrame /\ IdleOrder /\ IdleDeform /\ IdleEvents /\ IdlePose /\ IdleLate

RunFinalizeBones ==
    /\ defn.stage = "FinalizeBones"
    /\ \E bVerify \in BOOLEAN : defn' = Finalized(FinalizeBones(defn, bVerify))
    /\ UNCHANGED <<frameVars, outcome, deformVars, eventVars, pose, drawn, life, asked, built, twin, lateVars>>

RunFinalizeIk ==
    /\ defn.stage = "FinalizeIk"
    /\ defn' = Finalized(FinalizeIk(defn))
    /\ UNCHANGED <<frameVars, outcome, deformVars, eventVars, pose, drawn, life, asked, built, twin, lateVars>>

RunFinalizeSlots ==
    /\ defn.stage = "FinalizeSlots"
    /\ defn' = Finalized(FinalizeSlots(defn))
    /\ UNCHANGED <<frameVars, outcome, deformVars, eventVars, pose, drawn, life, asked, built, twin, lateVars>>

RunFinalizePaths ==
    /\ defn.stage = "FinalizePaths"
    /\ defn' = Finalized(FinalizePaths(defn))
    /\ UNCHANGED <<frameVars, outcome, deformVars, eventVars, pose, drawn, life, asked, built, twin, lateVars>>

RunFinalizeTransforms ==
    /\ defn.stage = "FinalizeTransforms"
    /\ defn' = Finalized(FinalizeTransforms(defn))
    /\ UNCHANGED <<frameVars, outcome, deformVars, eventVars, pose, drawn, life, asked, built, twin, lateVars>>

RunFinalizePoseTasks ==
    /\ defn.stage = "FinalizePoseTasks"
    /\ defn' = Finalized(FinalizePoseTasks(defn))
    /\ UNCHANGED <<frameVars, outcome, deformVars, eventVars, pose, drawn, life, asked, built, twin, lateVars>>

NextFinalize ==
    \/ RunFinalizeBones
    \/ RunFinalizeIk
    \/ RunFinalizeSlots
    \/ RunFinalizePaths
    \/ RunFinalizeTransforms
    \/ RunFinalizePoseTasks

SpecFinalize == InitFinalize /\ [][NextFinalize]_vars

(***************************************************************************)
(* C15: whenever finalization succeeds, every bone other than bone 0 has a *)
(* parent index p with 0 <= p < its own index, and bone 0 is the only bone *)
(* without a parent.                                                       *)
(***************************************************************************)
C15_EveryOtherBoneHasEarlierParent ==
    defn.stage = "done" =>
        /\ At(defn.m_vBones, 0).m_iParent = -1
        /\ \A i \in 1 .. (Len(defn.m_vBones) - 1) :
              0 <= At(defn.m_vBones, i).m_iParent /\ At(defn.m_vBones, i).m_iParent < i

\* The constraints of the definition, whatever their type.
Constraints == defn.m_vIk \o defn.m_vPaths \o defn.m_vTransforms

\* The ids a constraint may name as its target: slots for a path, bones otherwise.
TargetIds == IF defn.m_vPaths # <<>> THEN SlotIds ELSE DefBoneIds

NamesMissing(c) ==
    \/ c.m_TargetId \notin TargetIds
    \/ \E u \in 1 .. Len(c.m_vBoneIds) : c.m_vBoneIds[u] \notin DefBoneIds

(***************************************************************************)
(* C16: a definition in which an IK, path or transform constraint names a  *)
(* target, or a bone of its chain, that the definition does not hold       *)
(* never passes the Finalize function of that constraint type, and so is   *)
(* never reported as loaded.                                               *)
(***************************************************************************)
C16_MissingTargetOrBoneFails ==
    \A i \in 1 .. Len(Constraints) :
        NamesMissing(Constraints[i]) =>
            /\ defn.stage # "done"
            /\ defn.m_vIk # <<>> =>
                  defn.stage \notin {"FinalizeSlots", "FinalizePaths", "FinalizeTransforms", "FinalizePoseTasks"}
            /\ defn.m_vPaths # <<>> => defn.stage \notin {"FinalizeTransforms", "FinalizePoseTasks"}
            /\ defn.m_vTransforms # <<>> => defn.stage # "FinalizePoseTasks"

\* An IK constraint whose target resolves and whose last chain bone is missing: FinalizeIk failed.
C16_Witness ==
    /\ defn.stage = "failed" /\ defn.stoppedIn = "FinalizeIk"
    /\ Len(defn.m_vIk) = 1
    /\ defn.m_vIk[1].m_TargetId \in DefBoneIds
    /\ defn.m_vIk[1].m_vBoneIds = <<1, UnknownBoneId>>

(***************************************************************************)
(* Construction of a clip instance's constraint evaluators                 *)
(* (ClipInstance::InternalConstructEvaluators).  The definition holds      *)
(* NumIk constraints of each type, constraint i under the id i; a clip     *)
(* holds, per type, a table from constraint ids to timelines, and a path   *)
(* entry holds up to three timelines (an id with none stands for an id     *)
(* the clip does not name).  The evaluators are kept as a set:             *)
(* their order in m_vEvaluators is the iteration order of the tables.      *)
(***************************************************************************)
\* An id no constraint of the definition carries.
UnknownConstraintId == NumIk

ClipConstraintIds == IkIndices \cup {UnknownConstraintId}

\* DataDefinition::GetIkIndex, GetPathIndex, GetTransformIndex
GetIkIndex(id) == IF id \in IkIndices THEN id ELSE -1
GetPathIndex(id) == IF id \in IkIndices THEN id ELSE -1
GetTransformIndex(id) == IF id \in IkIndices THEN id ELSE -1

\* Clip::GetIk, GetPaths, GetTransforms of the clips a clip instance is built for.
ConstraintClips ==
    [m_tIk : SUBSET ClipConstraintIds,
     m_tPaths : [ClipConstraintIds -> SUBSET {"PathMix", "PathPosition", "PathSpacing"}],
     m_tTransforms : SUBSET ClipConstraintIds]

\* The evaluators the IK, path and transform blocks push.
ConstructConstraintEvaluators(c) ==
    { [type |-> "Ik", m_i |-> GetIkIndex(id)] : id \in c.m_tIk }
    \cup UNION { { [type |-> k, m_i |-> GetPathIndex(id)] : k \in c.m_tPaths[id] } : id \in ClipConstraintIds }
    \cup { [type |-> "Transform", m_i |-> GetTransformIndex(id)] : id \in c.m_tTransforms }

InitConstruct ==
    /\ built = NoInstance
    /\ drawn = NoDrawn /\ life = NoLife /\ asked = NoQuery /\ defn = NoDefinition /\ twin = NoTwin
    /\ IdleFrame /\ IdleOrder /\ IdleDeform /\ IdleEvents /\ IdlePose /\ IdleLate

\* ClipInstance::ClipInstance
ConstructClipInstance ==
    /\ ~built.made
    /\ \E c \in ConstraintClips :
          built' = [made |-> TRUE, m_vEvaluators |-> ConstructConstraintEvaluators(c), bEvaluated |-> FALSE]
    /\ UNCHANGED <<frameVars, outcome, deformVars, eventVars, pose, drawn, life, asked, defn, twin, lateVars>>

\* ClipInstance::Evaluate at a time no timeline starts after: every evaluator runs.
EvaluateClipInstance ==
    /\ built.made
    /\ built' = [built EXCEPT !.bEvaluated = TRUE]
    /\ UNCHANGED <<frameVars, outcome, deformVars, eventVars, pose, drawn, life, asked, defn, twin, lateVars>>

\* ClipInstance::~ClipInstance
DestroyClipInstance ==
    /\ built.made
    /\ built' = NoInstance
    /\ UNCHANGED <<frameVars, outcome, deformVars, eventVars, pose, drawn, life, asked, defn, twin, lateVars>>

NextConstruct ==
    \/ ConstructClipInstance
    \/ EvaluateClipInstance
    \/ DestroyClipInstance

SpecConstruct == InitConstruct /\ [][NextConstruct]_vars

(***************************************************************************)
(* C17: a clip timeline that names an IK, path or transform constraint id  *)
(* the definition does not hold never results in an evaluator that runs    *)
(* with the unresolved index -1.                                           *)
(***************************************************************************)
C17_NoEvaluatorRunsUnresolved ==
    (built.made /\ built.bEvaluated) => \A e \in built.m_vEvaluators : e.m_i # -1

(***************************************************************************)
(* Clone.  Two instances, a and its clone b, over one heap: a deform table *)
(* maps a key to the address of its DeformData and the heap maps the       *)
(* allocated addresses to their contents.  An instance has at most one     *)
(* deform evaluator, for key 1, and is driven by one clip whose evaluators *)
(* are the calls of ClipCalls.  Operations after the Clone are counted.    *)
(***************************************************************************)
\* The evaluators of the clip: one per kind, each with one key at time 1.
ClipCalls ==
    << [kind |-> "drawOrder", v |-> <<[m_fTime |-> 1, m_vOffsets |-> <<[m_Slot |-> 0, m_iOffset |-> 1]>>]>>,
        index |-> 0, fTime |-> 1, fAlpha |-> 10, bBlendDiscreteState |-> TRUE],
       [kind |-> "attachment", v |-> <<[m_fTime |-> 1, m_Id |-> 2]>>,
        index |-> 0, fTime |-> 1, fAlpha |-> 10, bBlendDiscreteState |-> TRUE],
       [kind |-> "rotation", v |-> <<[m_fTime |-> 1, m_uCurveType |-> "kLinear", m_fAngleInDegrees |-> 40]>>,
        index |-> 0, fTime |-> 1, fAlpha |-> 10, bBlendDiscreteState |-> TRUE],
       [kind |-> "ik", v |-> <<IkKey(1, "kLinear", FALSE)>>,
        index |-> 0, fTime |-> 1, fAlpha |-> 10, bBlendDiscreteState |-> TRUE] >>

\* ClipInstance::Evaluate: every evaluator of the clip from the u-th on.
RECURSIVE ClipInstanceEvaluate(_, _)
ClipInstanceEvaluate(d, u) ==
    IF u > Len(ClipCalls) THEN d ELSE ClipInstanceEvaluate(Evaluate(d, ClipCalls[u]), u + 1)

\* DataInstance::DataInstance
NewInstance == [made |-> TRUE, d |-> InternalConstruct, uEvals |-> 0,
                m_tDeforms |-> <<>>, m_tDeformReferences |-> <<>>, ev |-> NoEvaluator]

\* SEOUL_NEW: an address that is not allocated.
Alloc(heap) ==
    CHOOSE p \in 1 .. (Cardinality(DOMAIN heap) + 1) :
        p \notin DOMAIN heap /\ \A q \in 1 .. (p - 1) : q \in DOMAIN heap

\* The deform tables of x with every buffer read through its address.
Deref(x, heap) ==
    [m_tDeforms |-> [k \in DOMAIN x.m_tDeforms |-> heap[x.m_tDeforms[k]]],
     m_tDeformReferences |-> x.m_tDeformReferences]

\* x and the heap after a deform evaluator operation left the tables r: a buffer
\* the operation erased is deleted, one it wrote is written through its address,
\* one it created is allocated.
Store(x, heap, r) ==
    LET K1 == DOMAIN x.m_tDeforms
        K2 == DOMAIN r.m_tDeforms
        h1 == [p \in (DOMAIN heap) \ { x.m_tDeforms[k] : k \in K1 \ K2 } |->
                  IF \E k \in K1 \cap K2 : x.m_tDeforms[k] = p
                  THEN r.m_tDeforms[CHOOSE k \in K1 \cap K2 : x.m_tDeforms[k] = p]
                  ELSE heap[p]]
        pNew == Alloc(h1)
    IN [x |-> [x EXCEPT !.m_tDeforms = [k \in K2 |-> IF k \in K1 THEN x.m_tDeforms[k] ELSE pNew],
                        !.m_tDeformReferences = r.m_tDeformReferences],
        heap |-> IF K2 \subseteq K1 THEN h1
                 ELSE [p \in (DOMAIN h1) \cup {pNew} |->
                          IF p = pNew THEN r.m_tDeforms[CHOOSE k \in K2 \ K1 : TRUE] ELSE h1[p]]]

\* The loop of Clone over the keys still to copy: a new DeformData per buffer.
RECURSIVE CopyDeforms(_, _, _, _)
CopyDeforms(x, keys, table, heap) ==
    IF keys = {} THEN [m_tDeforms |-> table, heap |-> heap]
    ELSE LET k == CHOOSE i \in keys : \A j \in keys : i <= j
             p == Alloc(heap)
         IN CopyDeforms(x, keys \ {k}, [i \in (DOMAIN table) \cup {k} |-> IF i = k THEN p ELSE table[i]],
                        [q \in (DOMAIN heap) \cup {p} |-> IF q = p THEN heap[x.m_tDeforms[k]] ELSE heap[q]])

\* A Clone that copies the table of buffer addresses instead of the buffers.
DataInstanceClone_ShareBuffers(x, heap) ==
    [x |-> [NewInstance EXCEPT !.d.m_vBones = x.d.m_vBones,
                               !.m_tDeforms = x.m_tDeforms,
                               !.d.m_vDrawOrder = x.d.m_vDrawOrder,
                               !.d.m_vIk = x.d.m_vIk,
                               !.d.m_vSlots = x.d.m_vSlots],
     heap |-> heap]

\* DataInstance::Clone
DataInstanceClone(x, heap) ==
    LET c == CopyDeforms(x, DOMAIN x.m_tDeforms, <<>>, heap)
    IN [x |-> [NewInstance EXCEPT !.d.m_vBones = x.d.m_vBones,
                                  !.m_tDeforms = c.m_tDeforms,
                                  !.d.m_vDrawOrder = x.d.m_vDrawOrder,
                                  !.d.m_vIk = x.d.m_vIk,
                                  !.d.m_vSlots = x.d.m_vSlots],
        heap |-> c.heap]

InitClone ==
    /\ twin = [NoTwin EXCEPT !.a = NewInstance]
    /\ drawn = NoDrawn /\ life = NoLife /\ asked = NoQuery /\ defn = NoDefinition /\ built = NoInstance
    /\ IdleFrame /\ IdleOrder /\ IdleDeform /\ IdleEvents /\ IdlePose /\ IdleLate

\* The instances an operation can be called on (every buffer of an instance is
\* allocated: a deleted one is never read), and the state after one was.
Callable ==
    { on \in {"a", "b"} :
        /\ twin[on].made
        /\ twin.b.made => twin.uCalls < MaxCalls
        /\ \A k \in DOMAIN twin[on].m_tDeforms : twin[on].m_tDeforms[k] \in DOMAIN twin.heap }

Called(on, name, r) ==
    [twin EXCEPT ![on] = r.x, !.heap = r.heap,
                 !.uCalls = IF twin.b.made THEN @ + 1 ELSE @,
                 !.op = [on |-> on, name |-> name]]

CloneInstance ==
    /\ ~twin.b.made
    /\ LET r == DataInstanceClone(twin.a, twin.heap)
       IN twin' = [twin EXCEPT !.b = r.x, !.heap = r.heap, !.op = [on |-> "a", name |-> "Clone"]]
    /\ UNCHANGED <<frameVars, outcome, deformVars, eventVars, pose, drawn, life, asked, defn, built, lateVars>>

EvaluateOn ==
    /\ \E on \in Callable :
          /\ twin[on].uEvals < MaxEvals
          /\ twin' = Called(on, "Evaluate",
                        [x |-> [twin[on] EXCEPT !.d = ClipInstanceEvaluate(@, 1), !.uEvals = @ + 1],
                         heap |-> twin.heap])
    /\ UNCHANGED <<frameVars, outcome, deformVars, eventVars, pose, drawn, life, asked, defn, built, lateVars>>

ApplyCacheOn ==
    /\ \E on \in Callable :
          \E sorted \in QuickSort(twin[on].d.m_pCache.m_vAttachments) :
             twin' = Called(on, "ApplyCache",
                        [x |-> [twin[on] EXCEPT !.d = ApplyCacheWith(@, sorted), !.uEvals = 0],
                         heap |-> twin.heap])
    /\ UNCHANGED <<frameVars, outcome, deformVars, eventVars, pose, drawn, life, asked, defn, built, lateVars>>

ConstructEvaluatorOn ==
    /\ \E on \in Callable, v \in DeformTimelines :
          /\ twin[on].ev = NoEvaluator
          /\ twin' = Called(on, "DeformEvaluator",
                        Store([twin[on] EXCEPT !.ev = [m_Key |-> 1, m_v |-> v, m_uLastKeyFrame |-> 0]],
                              twin.heap, DeformEvaluatorConstruct(Deref(twin[on], twin.heap), 1)))
    /\ UNCHANGED <<frameVars, outcome, deformVars, eventVars, pose, drawn, life, asked, defn, built, lateVars>>

DestroyEvaluatorOn ==
    /\ \E on \in Callable :
          /\ twin[on].ev # NoEvaluator
          /\ twin' = Called(on, "~DeformEvaluator",
                        Store([twin[on] EXCEPT !.ev = NoEvaluator],
                              twin.heap, DeformEvaluatorDestroy(Deref(twin[on], twin.heap), 1)))
    /\ UNCHANGED <<frameVars, outcome, deformVars, eventVars, pose, drawn, life, asked, defn, built, lateVars>>

EvaluateDeformOn ==
    /\ \E on \in Callable, fTime \in Times :
          /\ twin[on].ev # NoEvaluator
          /\ twin' = Called(on, "DeformEvaluate",
                        Store([twin[on] EXCEPT !.ev.m_uLastKeyFrame =
                                   IF fTime < twin[on].ev.m_v[1].m_fTime THEN @
                                   ELSE DeformFrames(twin[on].ev, fTime).m_uLastKeyFrame],
                              twin.heap, DeformEvaluate(Deref(twin[on], twin.heap), twin[on].ev, fTime, 10)))
    /\ UNCHANGED <<frameVars, outcome, deformVars, eventVars, pose, drawn, life, asked, defn, built, lateVars>>

NextClone ==
    \/ CloneInstance
    \/ EvaluateOn
    \/ ApplyCacheOn
    \/ ConstructEvaluatorOn
    \/ DestroyEvaluatorOn
    \/ EvaluateDeformOn

SpecClone == InitClone /\ [][NextClone]_vars

\* The bone, constraint, slot, draw-order and deform state of an instance.
PosedState(x, heap) ==
    [m_vBones |-> x.d.m_vBones, m_vIk |-> x.d.m_vIk, m_vSlots |-> x.d.m_vSlots,
     m_vDrawOrder |-> x.d.m_vDrawOrder,
     m_tDeforms |-> [k \in DOMAIN x.m_tDeforms |->
                        IF x.m_tDeforms[k] \in DOMAIN heap
                        THEN [bDeleted |-> FALSE, v |-> heap[x.m_tDeforms[k]]]
                        ELSE [bDeleted |-> TRUE, v |-> <<>>]]]

\* Everything an instance holds.
WholeState(x, heap) ==
    [posed |-> PosedState(x, heap), m_pCache |-> x.d.m_pCache,
     m_tDeformReferences |-> x.m_tDeformReferences, ev |-> x.ev]

(***************************************************************************)
(* C18: the instance Clone returns has the bone, constraint, slot,         *)
(* draw-order and deform state the original has at the call, and after     *)
(* the call no operation on one of the two instances (evaluate, commit,    *)
(* deform evaluator construction, evaluation or destruction) changes       *)
(* anything the other holds.                                               *)
(***************************************************************************)
C18_CloneEqualThenIndependent ==
    [][/\ (~twin.b.made /\ twin'.b.made) =>
             /\ PosedState(twin'.b, twin'.heap) = PosedState(twin.a, twin.heap)
             /\ WholeState(twin'.a, twin'.heap) = WholeState(twin.a, twin.heap)
       /\ (twin.b.made /\ twin'.op.on = "a") =>
             WholeState(twin'.b, twin'.heap) = WholeState(twin.b, twin.heap)
       /\ (twin.b.made /\ twin'.op.on = "b") =>
             WholeState(twin'.a, twin'.heap) = WholeState(twin.a, twin.heap)]_vars

\* A clone made of a posed instance with a deform buffer, after which the
\* original's evaluator rewrote the original's buffer.
C18_Witness ==
    /\ twin.b.made
    /\ twin.op = [on |-> "a", name |-> "DeformEvaluate"]
    /\ twin.b.d.m_vDrawOrder # SetDefaultDrawOrder(NumSlots)
    /\ twin.b.d.m_vBones # InternalConstruct.m_vBones
    /\ DOMAIN twin.a.m_tDeforms = {1} /\ DOMAIN twin.b.m_tDeforms = {1}
    /\ twin.a.m_tDeforms[1] # twin.b.m_tDeforms[1]
    /\ twin.heap[twin.a.m_tDeforms[1]] # twin.heap[twin.b.m_tDeforms[1]]

(***************************************************************************)
(* The position in the finished list of the last task that poses a bone    *)
(* (0 when no task of the list poses it: the root is posed before the      *)
(* list is run).                                                           *)
(***************************************************************************)
LastPosing(iBone) ==
    IF TasksPosing(iBone) = {} THEN 0
    ELSE CHOOSE k \in TasksPosing(iBone) : \A j \in TasksPosing(iBone) : j <= k

(***************************************************************************)
(* C21: after the whole pose-task list has been executed no bone is left   *)
(* stale: for every bone other than the root, the last task that poses the *)
(* bone comes at or after the last task that poses its parent.             *)
(***************************************************************************)
C21_NoBoneLeftStale ==
    pose.bFinalized =>
        \A iBone \in PoseBones \ {0} :
            LastPosing(iBone) >= LastPosing(At(pose.vBones, iBone))

(***************************************************************************)
(* Sampled Evaluate calls of one frame.  A session has one kind of         *)
(* evaluator; the timeline an evaluator reads is fixed when it is          *)
(* constructed.  Each Evaluate call is recorded with its arguments, the    *)
(* first key's time and the instance state it found.                       *)
(***************************************************************************)
ChannelKinds == TimelineKinds \cup {"deform"}

TimelinesOf(k) ==
    IF k = "drawOrder" THEN DrawOrderTimelines
    ELSE IF k = "attachment" THEN AttachmentTimelines
    ELSE IF k = "rotation" THEN RotationTimelines
    ELSE IF k = "ik" THEN IkTimelines
    ELSE {<<>>}

InitChannel ==
    /\ inst = InternalConstruct
    /\ phase = "constructed"
    /\ applied = NoFrame
    /\ evals = 0
    /\ kind \in ChannelKinds
    /\ target \in Targets(kind)
    /\ \E v \in TimelinesOf(kind) : sample = [NoSample EXCEPT !.v = v]
    /\ deforms = NoDeforms
    /\ evaluators = [e \in EvalIds |-> NoEvaluator]
    /\ clone = NoClone
    /\ IdleOrder /\ IdleEvents /\ IdlePose
    /\ drawn = NoDrawn /\ life = NoLife /\ asked = NoQuery /\ defn = NoDefinition
    /\ built = NoInstance /\ twin = NoTwin
    /\ scan = NoScan
    /\ tint = NoTint
    /\ sorting = NoSorting
    /\ reach = NoReach
    /\ mgr = NoManager
    /\ loaded = NoLoaded
    /\ loading = NoLoading

\* One Evaluate call of the session's evaluator on the instance.
Sampled(d, fTime, fAlpha) ==
    /\ evals < MaxEvals
    /\ inst' = d
    /\ phase' = "evaluated"
    /\ applied' = NoFrame
    /\ evals' = evals + 1
    /\ sample' = [sample EXCEPT !.made = TRUE, !.fTime = fTime, !.fAlpha = fAlpha,
                                !.fFirst = sample.v[1].m_fTime,
                                !.before = [inst |-> inst, deforms |-> deforms]]
    /\ UNCHANGED <<kind, target, outcome, deformVars, eventVars, pose, auxVars, scan, tint, sorting, reach, mgr, loaded, loading>>

SampleDrawOrder ==
    /\ kind = "drawOrder"
    /\ \E fTime \in Times :
          Sampled(DrawOrderEvaluate(inst, sample.v, fTime), fTime, 10)

SampleSlotAttachment ==
    /\ kind = "attachment"
    /\ \E iSlot \in SlotIndices, fTime \in Times, fAlpha \in Weights, bBlendDiscreteState \in BOOLEAN :
          Sampled(SlotAttachmentEvaluate(inst, sample.v, iSlot, fTime, fAlpha, bBlendDiscreteState),
                  fTime, fAlpha)

SampleRotation ==
    /\ kind = "rotation"
    /\ \E fTime \in Times, fAlpha \in Weights :
          Sampled(RotationEvaluate(inst, sample.v, target, fTime, fAlpha), fTime, fAlpha)

SampleIk ==
    /\ kind = "ik"
    /\ \E fTime \in Times, fAlpha \in Weights :
          Sampled(IkEvaluate(inst, sample.v, target, fTime, fAlpha), fTime, fAlpha)

RegisterDeformEvaluator == kind = "deform" /\ CreateDeformEvaluator

SampleDeform ==
    /\ kind = "deform"
    /\ evals < MaxEvals
    /\ \E e \in EvalIds, fTime \in Times, fAlpha \in Weights :
          /\ evaluators[e] # NoEvaluator
          /\ ExactBlend(deforms, evaluators[e], fTime, fAlpha)
          /\ deforms' = DeformEvaluate(deforms, evaluators[e], fTime, fAlpha)
          /\ evaluators' = [evaluators EXCEPT ![e].m_uLastKeyFrame =
                 IF fTime < evaluators[e].m_v[1].m_fTime THEN @
                 ELSE DeformFrames(evaluators[e], fTime).m_uLastKeyFrame]
          /\ sample' = [sample EXCEPT !.made = TRUE, !.fTime = fTime, !.fAlpha = fAlpha,
                                      !.fFirst = evaluators[e].m_v[1].m_fTime,
                                      !.key = evaluators[e].m_Key,
                                      !.before = [inst |-> inst, deforms |-> deforms]]
    /\ evals' = evals + 1
    /\ phase' = "evaluated"
    /\ UNCHANGED <<inst, applied, kind, target, clone, outcome, eventVars, pose, auxVars, scan, tint, sorting, reach, mgr, loaded, loading>>

NextChannel ==
    \/ SampleDrawOrder
    \/ SampleSlotAttachment
    \/ SampleRotation
    \/ SampleIk
    \/ RegisterDeformEvaluator
    \/ SampleDeform

SpecChannel == InitChannel /\ [][NextChannel]_vars

\* The value a bucket of a Float table holds (nothing accumulated: 0).
Bucket(r, i) == IF i \in DOMAIN r THEN r[i] ELSE 0

ZeroIkEntry ==
    [m_fMix |-> 0, m_fSoftness |-> 0, m_fBendPositive |-> 0, m_fCompress |-> 0, m_fStretch |-> 0]

BucketIk(r, i) == IF i \in DOMAIN r THEN r[i] ELSE ZeroIkEntry

\* What the sampled call added to the bucket of the session's target.
AddedRotation ==
    Bucket(inst.m_pCache.m_tRotation, target) - Bucket(sample.before.inst.m_pCache.m_tRotation, target)

AddedIk ==
    LET a == BucketIk(inst.m_pCache.m_tIk, target)
        b == BucketIk(sample.before.inst.m_pCache.m_tIk, target)
    IN [m_fMix          |-> a.m_fMix - b.m_fMix,
        m_fSoftness     |-> a.m_fSoftness - b.m_fSoftness,
        m_fBendPositive |-> a.m_fBendPositive - b.m_fBendPositive,
        m_fCompress     |-> a.m_fCompress - b.m_fCompress,
        m_fStretch      |-> a.m_fStretch - b.m_fStretch]

\* The sampled call is the last thing that happened, at or after the first key.
SampledAtOrAfterFirstKey == sample.made /\ phase = "evaluated" /\ sample.fTime >= sample.fFirst

\* The key values of the sampled call, interpolated.
SampledFrames == FrameValues(sample.v, sample.fTime)

InterpolatedAngle ==
    LerpDegrees(SampledFrames.k0.m_fAngleInDegrees, SampledFrames.k1.m_fAngleInDegrees, SampledFrames.fT)

\* w times (the interpolated key values minus the definition's rest values).
WeightedIkDelta ==
    LET f == SampledFrames
        base == At(vIkData, target)
        w == sample.fAlpha
    IN [m_fMix          |-> Weighted(Lerp(f.k0.m_fMix, f.k1.m_fMix, f.fT) - base.m_fMix, w),
        m_fSoftness     |-> Weighted(Lerp(f.k0.m_fSoftness, f.k1.m_fSoftness, f.fT) - base.m_fSoftness, w),
        m_fBendPositive |-> Weighted(Lerp(BoolToFloat(f.k0.m_bBendPositive), BoolToFloat(f.k1.m_bBendPositive), f.fT)
                                       - BoolToFloat(base.m_bBendPositive), w),
        m_fCompress     |-> Weighted(Lerp(BoolToFloat(f.k0.m_bCompress), BoolToFloat(f.k1.m_bCompress), f.fT)
                                       - BoolToFloat(base.m_bCompress), w),
        m_fStretch      |-> Weighted(Lerp(BoolToFloat(f.k0.m_bStretch), BoolToFloat(f.k1.m_bStretch), f.fT)
                                       - BoolToFloat(base.m_bStretch), w)]

(***************************************************************************)
(* C22 as stated: for every continuous channel, the amount one Evaluate    *)
(* call adds to the cache bucket is w times (the interpolated key value    *)
(* minus the definition's rest value of the channel).                      *)
(***************************************************************************)
C22_AddsWeightedDeltaFromRest ==
    SampledAtOrAfterFirstKey =>
        /\ kind = "rotation" =>
              AddedRotation = Weighted(InterpolatedAngle - At(vBonesData, target).m_fRotationInDegrees,
                                       sample.fAlpha)
        /\ kind = "ik" => AddedIk = WeightedIkDelta

(***************************************************************************)
(* C22 amended: a constraint channel (IK here) adds w times (the           *)
(* interpolated key value minus the definition's rest value); a bone       *)
(* channel (rotation here) adds w times the interpolated key value, with   *)
(* nothing subtracted: the keys of a bone timeline are offsets from the    *)
(* rest pose already.                                                      *)
(***************************************************************************)
C22_AddsWeightedDeltaOrOffset ==
    SampledAtOrAfterFirstKey =>
        /\ kind = "rotation" => AddedRotation = Weighted(InterpolatedAngle, sample.fAlpha)
        /\ kind = "ik" => AddedIk = WeightedIkDelta

C22_Witness ==
    /\ SampledAtOrAfterFirstKey
    /\ kind = "rotation"
    /\ At(vBonesData, target).m_fRotationInDegrees # 0
    /\ target \in DOMAIN sample.before.inst.m_pCache.m_tRotation
    /\ AddedRotation # 0
    /\ sample.fAlpha < 10

\* The sampled call came with a time earlier than the first key's time.
SampledBeforeFirstKey == sample.made /\ sample.fTime < sample.fFirst

(***************************************************************************)
(* C23 as stated: an Evaluate call with a time earlier than the first      *)
(* key's time contributes nothing: the cache and all instance state, the   *)
(* deform buffers included, are the same after the call as before it.      *)
(***************************************************************************)
C23_BeforeFirstKeyChangesNothing ==
    SampledBeforeFirstKey =>
        /\ inst = sample.before.inst
        /\ deforms.m_tDeforms = sample.before.deforms.m_tDeforms

(***************************************************************************)
(* C23 amended: an Evaluate call with a time earlier than the first key's  *)
(* time leaves the cache and the instance's committed state as they were;  *)
(* a deform evaluator in addition releases the deform buffer of its key    *)
(* when it is the only evaluator registered for the key, and leaves every  *)
(* buffer alone otherwise.                                                 *)
(***************************************************************************)
C23_BeforeFirstKeyOnlyReleasesDeform ==
    SampledBeforeFirstKey =>
        /\ inst = sample.before.inst
        /\ kind # "deform" => deforms.m_tDeforms = sample.before.deforms.m_tDeforms
        /\ kind = "deform" =>
              deforms.m_tDeforms =
                  IF sample.before.deforms.m_tDeformReferences[sample.key] = 1
                  THEN TableErase(sample.before.deforms.m_tDeforms, sample.key)
                  ELSE sample.before.deforms.m_tDeforms

C23_Witness ==
    /\ SampledBeforeFirstKey
    /\ kind = "deform"
    /\ sample.key \in DOMAIN sample.before.deforms.m_tDeforms
    /\ sample.key \notin DOMAIN deforms.m_tDeforms

(***************************************************************************)
(* KeyFrameEvaluator::GetFrames over the life of one evaluator: the keys   *)
(* are in time order as the exporter writes them (two keys may share a     *)
(* time), m_uLastKeyFrame starts at 0 and is carried from call to call.    *)
(* Evaluate calls GetFrames only with a time at or after the first key's.  *)
(***************************************************************************)
KeyLists ==
    { l \in SeqsUpTo({ [m_fTime |-> t] : t \in Times }, MaxKeys) :
        /\ l # <<>>
        /\ \A i \in 1 .. (Len(l) - 1) : l[i].m_fTime <= l[i + 1].m_fTime }

InitScan ==
    /\ \E v \in KeyLists : scan = [NoScan EXCEPT !.v = v]
    /\ IdleFrame /\ IdleOrder /\ IdleDeform /\ IdleEvents /\ IdlePose
    /\ drawn = NoDrawn /\ life = NoLife /\ asked = NoQuery /\ defn = NoDefinition
    /\ built = NoInstance /\ twin = NoTwin
    /\ sample = NoSample
    /\ tint = NoTint
    /\ sorting = NoSorting
    /\ reach = NoReach
    /\ mgr = NoManager
    /\ loaded = NoLoaded
    /\ loading = NoLoading

CallGetFrames ==
    /\ \E fTime \in Times :
          /\ fTime >= scan.v[1].m_fTime
          /\ LET f == GetFrames(scan.v, scan.m_uLastKeyFrame, fTime)
             IN scan' = [scan EXCEPT !.made = TRUE, !.fTime = fTime, !.fPrev = scan.fTime,
                                     !.uBefore = scan.m_uLastKeyFrame,
                                     !.m_uLastKeyFrame = f.m_uLastKeyFrame,
                                     !.pr0 = f.pr0, !.pr1 = f.pr1]
    /\ UNCHANGED <<frameVars, outcome, deformVars, eventVars, pose, auxVars, sample, tint, sorting, reach, mgr, loaded, loading>>

NextScan == CallGetFrames

SpecScan == InitScan /\ [][NextScan]_vars

\* The (0-based) index of the last key with time <= fTime.
LastKeyAtOrBefore(v, fTime) ==
    CHOOSE u \in 0 .. (Len(v) - 1) :
        /\ At(v, u).m_fTime <= fTime
        /\ \A w \in 0 .. (Len(v) - 1) : At(v, w).m_fTime <= fTime => w <= u

(***************************************************************************)
(* C24: whatever times the earlier calls had, the keys GetFrames chooses   *)
(* with the cached hint are the ones a search from the first key chooses:  *)
(* K0 is the last key with time <= t and K1 the key after it, or both are  *)
(* the final key when t is at or past the final key's time.                *)
(***************************************************************************)
C24_HintChoosesSearchedKeys ==
    scan.made =>
        LET u == LastKeyAtOrBefore(scan.v, scan.fTime)
            found == ScanFrames(scan.v, 0, scan.fTime)
        IN /\ scan.pr0 = u
           /\ scan.pr1 = IF scan.fTime >= Last(scan.v).m_fTime THEN u ELSE u + 1
           /\ scan.fTime >= Last(scan.v).m_fTime => u = Len(scan.v) - 1
           /\ scan.pr0 = found.pr0 /\ scan.pr1 = found.pr1

C24_Witness ==
    /\ scan.made
    /\ scan.fTime < scan.fPrev
    /\ scan.uBefore > scan.pr0
    /\ scan.pr0 > 0
    /\ scan.pr1 = scan.pr0 + 1

(***************************************************************************)
(* Slot colours.  A colour is one 8-bit channel; the light colour is       *)
(* m_Color, the dark colour m_SecondaryColor.  SlotInstance holds          *)
(* m_AttachmentId and m_Color only.  Key colours are at or above the rest  *)
(* colours, so every sum stays in the range the UInt8 conversion defines,  *)
(* and every colour a timeline takes at a whole time differs from the rest *)
(* colours by a multiple of ten, so every weighted delta (weights are in   *)
(* tenths) is a whole number, as is every sum the commit converts.         *)
(***************************************************************************)
SlotColorData ==
    [i \in 1 .. NumSlots |-> [m_Color |-> 100 + 20 * (i - 1), m_SecondaryColor |-> 0]]

LightColors == {160, 240}
DarkColors == {0, 60}

ColorKey(t, c, light, dark) ==
    [m_fTime |-> t, m_uCurveType |-> c, m_Color |-> light, m_SecondaryColor |-> dark]

ColorTimelines ==
    { <<ColorKey(1, "kLinear", a, 0)>> : a \in LightColors }
    \cup
    { <<ColorKey(0, "kLinear", 160, 0), ColorKey(2, "kLinear", 240, 0)>> }

TwoColorTimelines ==
    { <<ColorKey(1, "kLinear", a, x)>> : a \in LightColors, x \in DarkColors }
    \cup
    { <<ColorKey(0, "kLinear", 160, 0), ColorKey(2, "kLinear", 240, 60)>> }

EmptyColorCache == [m_tColor |-> <<>>, m_tTwoColor |-> <<>>]

\* TwoColorEntry::operator+=
TwoColorEntryAdd(a, b) == [m_vLight |-> a.m_vLight + b.m_vLight, m_vDark |-> a.m_vDark + b.m_vDark]

AccumSlotColor(cache, i, v) == [cache EXCEPT !.m_tColor = AccumCommon(@, i, v)]

AccumSlotTwoColor(cache, i, e) ==
    [cache EXCEPT !.m_tTwoColor =
        IF i \in DOMAIN @ THEN [@ EXCEPT ![i] = TwoColorEntryAdd(@, e)] ELSE @ @@ (i :> e)]

\* SlotColorEvaluator::Evaluate
SlotColorEvaluate(d, v, iSlot, fTime, fAlpha) ==
    IF fTime < v[1].m_fTime THEN d
    ELSE LET f == FrameValues(v, fTime)
             base == At(SlotColorData, iSlot)
         IN [d EXCEPT !.m_pCache = AccumSlotColor(@, iSlot,
                Weighted(Lerp(f.k0.m_Color, f.k1.m_Color, f.fT) - base.m_Color, fAlpha))]

\* SlotTwoColorEvaluator::Evaluate
SlotTwoColorEvaluate(d, v, iSlot, fTime, fAlpha) ==
    IF fTime < v[1].m_fTime THEN d
    ELSE LET f == FrameValues(v, fTime)
             base == At(SlotColorData, iSlot)
         IN [d EXCEPT !.m_pCache = AccumSlotTwoColor(@, iSlot,
                [m_vLight |-> Weighted(Lerp(f.k0.m_Color, f.k1.m_Color, f.fT) - base.m_Color, fAlpha),
                 m_vDark  |-> Weighted(Lerp(f.k0.m_SecondaryColor, f.k1.m_SecondaryColor, f.fT)
                                         - base.m_SecondaryColor, fAlpha)])]

\* (UInt8)Min(base + v + 0.5f, 255.0f) on whole numbers.
ToChannel(x) == IF x < 255 THEN x ELSE 255

\* DataInstance::ApplyCache, the Color block, and Cache::Clear.
ApplyCacheColor(d) ==
    [d EXCEPT !.m_vSlots =
                 [i \in 1 .. Len(@) |->
                     IF (i - 1) \notin DOMAIN d.m_pCache.m_tColor
                     THEN [@[i] EXCEPT !.m_Color = SlotColorData[i].m_Color]
                     ELSE [@[i] EXCEPT !.m_Color =
                              ToChannel(SlotColorData[i].m_Color + d.m_pCache.m_tColor[i - 1])]],
              !.m_pCache = EmptyColorCache]

\* DataInstance::InternalConstruct, the slots' colours.
ConstructColors ==
    [made |-> TRUE,
     m_vSlots |-> [i \in 1 .. NumSlots |-> [m_Color |-> SlotColorData[i].m_Color]],
     m_pCache |-> EmptyColorCache,
     uEvals |-> 0,
     op |-> "construct",
     applied |-> EmptyColorCache]

InitColor ==
    /\ tint = ConstructColors
    /\ IdleFrame /\ IdleOrder /\ IdleDeform /\ IdleEvents /\ IdlePose
    /\ drawn = NoDrawn /\ life = NoLife /\ asked = NoQuery /\ defn = NoDefinition
    /\ built = NoInstance /\ twin = NoTwin
    /\ sample = NoSample
    /\ scan = NoScan
    /\ sorting = NoSorting
    /\ reach = NoReach
    /\ mgr = NoManager
    /\ loaded = NoLoaded
    /\ loading = NoLoading

EvaluatedColor(d) ==
    /\ tint.uEvals < MaxEvals
    /\ tint' = [d EXCEPT !.uEvals = @ + 1, !.op = "evaluate", !.applied = EmptyColorCache]
    /\ UNCHANGED <<frameVars, outcome, deformVars, eventVars, pose, auxVars, sample, scan, sorting, reach, mgr, loaded, loading>>

EvaluateSlotColor ==
    \E v \in ColorTimelines, iSlot \in SlotIndices, fTime \in Times, fAlpha \in Weights :
        EvaluatedColor(SlotColorEvaluate(tint, v, iSlot, fTime, fAlpha))

EvaluateSlotTwoColor ==
    \E v \in TwoColorTimelines, iSlot \in SlotIndices, fTime \in Times, fAlpha \in Weights :
        EvaluatedColor(SlotTwoColorEvaluate(tint, v, iSlot, fTime, fAlpha))

CommitColors ==
    /\ tint' = [ApplyCacheColor(tint) EXCEPT !.uEvals = 0, !.op = "commit", !.applied = tint.m_pCache]
    /\ UNCHANGED <<frameVars, outcome, deformVars, eventVars, pose, auxVars, sample, scan, sorting, reach, mgr, loaded, loading>>

NextColor ==
    \/ EvaluateSlotColor
    \/ EvaluateSlotTwoColor
    \/ CommitColors

SpecColor == InitColor /\ [][NextColor]_vars

(***************************************************************************)
(* C25: a two-color contribution accumulated in the cache is written by    *)
(* ApplyCache into the slot's committed colour state, as the other         *)
(* accumulators are: after a commit, a slot that had a two-color           *)
(* contribution and no plain colour contribution holds its rest light      *)
(* colour plus the accumulated light delta.                                *)
(***************************************************************************)
C25_TwoColorCommitted ==
    tint.op = "commit" =>
        \A iSlot \in SlotIndices :
            (iSlot \in DOMAIN tint.applied.m_tTwoColor /\ iSlot \notin DOMAIN tint.applied.m_tColor) =>
                At(tint.m_vSlots, iSlot).m_Color =
                    ToChannel(At(SlotColorData, iSlot).m_Color + tint.applied.m_tTwoColor[iSlot].m_vLight)

(***************************************************************************)
(* The evaluation order of the constraints (PoseOrder, the head of         *)
(* FinalizePoseTasks).  A definition stores each constraint's order as an  *)
(* Int32; PoseOrder keeps it in an Int8.  Only the constraint tasks of the *)
(* list are kept here, in the order the loop over aOrder pushes them.      *)
(***************************************************************************)
Int8Max == 127

\* (Int8)x
ToInt8(x) == ((x + 128) % 256) - 128

\* Order values a definition can hold, around the ends of the Int8 range.
OrderValues == {-129, -1, 0, 1, 127, 128}

\* PoseOrder::PoseOrder
PoseOrder(iType, iOrder, uIndex) == [m_iType |-> iType, m_iOrder |-> ToInt8(iOrder), m_uIndex |-> uIndex]

\* PoseOrder::operator<
PoseOrderLess(a, b) == a.m_iOrder < b.m_iOrder

\* The three loops that fill aOrder: ik, then paths, then transforms.
FillOrder(d) ==
    [i \in 1 .. Len(d.m_vIk) |-> PoseOrder("kIk", d.m_vIk[i].m_iOrder, i - 1)]
    \o [i \in 1 .. Len(d.m_vPaths) |-> PoseOrder("kPath", d.m_vPaths[i].m_iOrder, i - 1)]
    \o [i \in 1 .. Len(d.m_vTransforms) |-> PoseOrder("kTransform", d.m_vTransforms[i].m_iOrder, i - 1)]

\* QuickSort(aOrder.Begin(), aOrder.End())
SortOrder(v) ==
    { s \in Reorderings(v) : \A i \in 1 .. (Len(s) - 1) : ~PoseOrderLess(s[i + 1], s[i]) }

\* SEOUL_ASSERT(iOrder <= Int8Max) stops a build that has assertions.
OrderAsserts(d) ==
    \E v \in {d.m_vIk, d.m_vPaths, d.m_vTransforms} : \E i \in 1 .. Len(v) : v[i].m_iOrder > Int8Max

\* The constraint tasks of m_vPoseTasks, one per entry of the sorted aOrder.
ConstraintTasksOf(aOrder) ==
    [i \in 1 .. Len(aOrder) |-> [m_iType |-> aOrder[i].m_iType, m_iIndex |-> aOrder[i].m_uIndex]]

OrderedDefinitions ==
    { [status |-> "loaded", m_vIk |-> a, m_vPaths |-> b, m_vTransforms |-> c, rv |-> <<>>] :
        a \in SeqsUpTo({ [m_iOrder |-> o] : o \in OrderValues }, MaxOrdered),
        b \in SeqsUpTo({ [m_iOrder |-> o] : o \in OrderValues }, 1),
        c \in SeqsUpTo({ [m_iOrder |-> o] : o \in OrderValues }, 1) }

InitSort ==
    /\ sorting \in OrderedDefinitions
    /\ IdleFrame /\ IdleOrder /\ IdleDeform /\ IdleEvents /\ IdlePose
    /\ drawn = NoDrawn /\ life = NoLife /\ asked = NoQuery /\ defn = NoDefinition
    /\ built = NoInstance /\ twin = NoTwin
    /\ sample = NoSample
    /\ scan = NoScan
    /\ tint = NoTint
    /\ reach = NoReach
    /\ mgr = NoManager
    /\ loaded = NoLoaded
    /\ loading = NoLoading

OrderPoseTasks ==
    /\ sorting.status = "loaded"
    /\ \E bAssert \in BOOLEAN, aOrder \in SortOrder(FillOrder(sorting)) :
          sorting' = IF bAssert /\ OrderAsserts(sorting)
                     THEN [sorting EXCEPT !.status = "asserted"]
                     ELSE [sorting EXCEPT !.status = "finalized", !.rv = ConstraintTasksOf(aOrder)]
    /\ UNCHANGED <<frameVars, outcome, deformVars, eventVars, pose, auxVars, sample, scan, tint, reach, mgr, loaded, loading>>

NextSort == OrderPoseTasks

SpecSort == InitSort /\ [][NextSort]_vars

\* The order value the definition stores for the constraint a task names.
StoredOrder(task) ==
    IF task.m_iType = "kIk" THEN At(sorting.m_vIk, task.m_iIndex).m_iOrder
    ELSE IF task.m_iType = "kPath" THEN At(sorting.m_vPaths, task.m_iIndex).m_iOrder
    ELSE At(sorting.m_vTransforms, task.m_iIndex).m_iOrder

(***************************************************************************)
(* C26: constraint tasks are placed in the pose-task list in ascending     *)
(* order of their constraints' order value: whenever constraint X has a    *)
(* smaller order value than constraint Y, the task of X comes before the   *)
(* task of Y.                                                              *)
(***************************************************************************)
C26_TasksAscendByOrder ==
    sorting.status = "finalized" =>
        \A x, y \in 1 .. Len(sorting.rv) :
            StoredOrder(sorting.rv[x]) < StoredOrder(sorting.rv[y]) => x < y

(***************************************************************************)
(* Slot indices in use.  A clip holds a table from slot ids to the slot's  *)
(* timelines (an id with none stands for an id the clip does not name)     *)
(* and at most one draw-order key; ids are the definition's slot ids or an *)
(* id no slot carries.  Each call records the indices it uses on the       *)
(* definition's slot array, the instance's m_vSlots and the cache's        *)
(* m_vDrawOrder and m_vDrawOrderScratch.  An index outside the array is    *)
(* undefined behaviour: nothing is said about the state after it.          *)
(***************************************************************************)
ClipSlotIds == SlotIndices \cup {UnknownSlotId}

SlotTimelineKinds == {"Attachment", "Color", "TwoColor"}

\* Offsets of a draw-order key: none, or one entry.  An entry for a slot of
\* the definition targets a position inside the draw order.
ClipOffsets ==
    {<<>>} \cup
    { <<[m_Slot |-> id, m_iOffset |-> o]>> :
        id \in ClipSlotIds, o \in (1 - NumSlots) .. (NumSlots - 1) }

SlotClips ==
    { c \in [m_tSlots : [ClipSlotIds -> SUBSET SlotTimelineKinds], m_vOffsets : ClipOffsets] :
        \A u \in 1 .. Len(c.m_vOffsets) :
            c.m_vOffsets[u].m_Slot \in SlotIndices => InRange(c.m_vOffsets[u]) }

\* InternalConstructEvaluators, the slots block, and the draw-order evaluator.
ConstructSlotEvaluators(c) ==
    UNION { { [type |-> k, m_iSlot |-> GetSlotIndex(id)] : k \in c.m_tSlots[id] } : id \in ClipSlotIds }

\* DrawOrderEvaluator::Evaluate: drawOrder[iSlot + i->m_iOffset] = iSlot; scratch[iSlot] = -1;
DrawOrderIndices(offs) ==
    UNION { { GetSlotIndex(offs[u].m_Slot) + offs[u].m_iOffset, GetSlotIndex(offs[u].m_Slot) } :
              u \in 1 .. Len(offs) }

\* SlotColorEvaluator / SlotTwoColorEvaluator::Evaluate: base = p->GetSlots()[m_iSlot]
ColorIndices(vEvaluators) ==
    { e.m_iSlot : e \in { x \in vEvaluators : x.type \in {"Color", "TwoColor"} } }

\* SlotAttachmentEvaluator::Evaluate pushes an entry with m_iSlot; ApplyCache
\* writes m_vSlots[e.m_iSlot] for the entries of the top group.
AttachmentIndices(vEvaluators) ==
    { e.m_iSlot : e \in { x \in vEvaluators : x.type = "Attachment" } }

Defined(used) == IF used \subseteq SlotIndices THEN "defined" ELSE "undefined"

InitSlots ==
    /\ reach = NoReach
    /\ IdleFrame /\ IdleOrder /\ IdleDeform /\ IdleEvents /\ IdlePose
    /\ drawn = NoDrawn /\ life = NoLife /\ asked = NoQuery /\ defn = NoDefinition
    /\ built = NoInstance /\ twin = NoTwin
    /\ sample = NoSample
    /\ scan = NoScan
    /\ tint = NoTint
    /\ sorting = NoSorting
    /\ mgr = NoManager
    /\ loaded = NoLoaded
    /\ loading = NoLoading

ConstructSlotClipInstance ==
    /\ reach.stage = "none"
    /\ \E c \in SlotClips :
          reach' = [stage |-> "constructed", m_vOffsets |-> c.m_vOffsets,
                    m_vEvaluators |-> ConstructSlotEvaluators(c),
                    vPending |-> {}, used |-> {}, behaviour |-> "defined"]
    /\ UNCHANGED <<frameVars, outcome, deformVars, eventVars, pose, auxVars, sample, scan, tint, sorting, mgr, loaded, loading>>

\* ClipInstance::Evaluate at a time at or after every first key, with weight 1.
EvaluateSlotClipInstance ==
    /\ reach.stage \in {"constructed", "committed"}
    /\ reach.behaviour = "defined"
    /\ LET used == DrawOrderIndices(reach.m_vOffsets) \cup ColorIndices(reach.m_vEvaluators)
       IN reach' = [reach EXCEPT !.stage = "evaluated", !.used = used,
                                 !.vPending = AttachmentIndices(reach.m_vEvaluators),
                                 !.behaviour = Defined(used)]
    /\ UNCHANGED <<frameVars, outcome, deformVars, eventVars, pose, auxVars, sample, scan, tint, sorting, mgr, loaded, loading>>

\* DataInstance::ApplyCache, the Attachments block.
CommitSlotClipInstance ==
    /\ reach.stage = "evaluated"
    /\ reach.behaviour = "defined"
    /\ reach' = [reach EXCEPT !.stage = "committed", !.used = reach.vPending, !.vPending = {},
                              !.behaviour = Defined(reach.vPending)]
    /\ UNCHANGED <<frameVars, outcome, deformVars, eventVars, pose, auxVars, sample, scan, tint, sorting, mgr, loaded, loading>>

DestroySlotClipInstance ==
    /\ reach.stage \in {"constructed", "committed"}
    /\ reach' = NoReach
    /\ UNCHANGED <<frameVars, outcome, deformVars, eventVars, pose, auxVars, sample, scan, tint, sorting, mgr, loaded, loading>>

NextSlots ==
    \/ ConstructSlotClipInstance
    \/ EvaluateSlotClipInstance
    \/ CommitSlotClipInstance
    \/ DestroySlotClipInstance

SpecSlots == InitSlots /\ [][NextSlots]_vars

(***************************************************************************)
(* C27: every slot index used while evaluating a clip and committing the   *)
(* cache lies in [0, num_slots), whether or not the clip's slot ids exist  *)
(* in the definition.                                                      *)
(***************************************************************************)
C27_SlotIndicesInRange ==
    reach.stage \in {"evaluated", "committed"} => reach.used \subseteq SlotIndices

(***************************************************************************)
(* The Manager's instance tracking (developer builds).  m_vInstances holds *)
(* one SharedPtr per tracked NetworkInstance; ext[x] counts the SharedPtrs *)
(* to instance x held outside the manager, so IsUnique() of a tracked      *)
(* pointer is ext[x] = 0.  Tick, CreateInstance and                        *)
(* GetActiveNetworkInstances run on different threads and take m_Mutex;    *)
(* holders release their SharedPtrs on any thread without it (the count is *)
(* atomic).  Tick's loop runs one iteration per step.                      *)
(***************************************************************************)
InstanceIds == 1 .. MaxInstances

\* Manager::Manager()
NewManager ==
    [m_vInstances |-> <<>>, ext |-> [x \in InstanceIds |-> 0], uMade |-> 0, m_Mutex |-> "free",
     pcTick |-> "idle", i |-> 0, iCount |-> 0, vBefore |-> <<>>, vShared |-> {}, uTicks |-> 0,
     pcCreate |-> "idle", pReturn |-> 0,
     pcGet |-> "idle"]

\* m_vInstances[i].IsUnique()
IsUnique(m, x) == m.ext[x] = 0

\* Swap(m_vInstances[i], m_vInstances[iCount-1])
SwapAt(v, a, b) == Put(Put(v, a, At(v, b)), b, At(v, a))

\* One iteration of Tick's loop that found a unique pointer: the last counted
\* entry takes its place, is no longer counted, and position i is looked at again.
TickIteration_NoRecheck(v, i, iCount) ==
    [v |-> SwapAt(v, i, iCount - 1), iCount |-> iCount - 1, i |-> i + 1]

TickIteration(v, i, iCount) ==
    [v |-> SwapAt(v, i, iCount - 1), iCount |-> iCount - 1, i |-> (i - 1) + 1]

InitManager ==
    /\ mgr = NewManager
    /\ IdleFrame /\ IdleOrder /\ IdleDeform /\ IdleEvents /\ IdlePose
    /\ drawn = NoDrawn /\ life = NoLife /\ asked = NoQuery /\ defn = NoDefinition
    /\ built = NoInstance /\ twin = NoTwin
    /\ sample = NoSample
    /\ scan = NoScan
    /\ tint = NoTint
    /\ sorting = NoSorting
    /\ reach = NoReach
    /\ loaded = NoLoaded
    /\ loading = NoLoading

\* CreateInstance, up to the lock: pReturn is the only pointer to the new instance.
CreateInstanceNew ==
    /\ mgr.pcCreate = "idle"
    /\ mgr.uMade < MaxInstances
    /\ mgr' = [mgr EXCEPT !.pcCreate = "made", !.uMade = @ + 1, !.pReturn = mgr.uMade + 1,
                          !.ext[mgr.uMade + 1] = 1]
    /\ UNCHANGED <<frameVars, outcome, deformVars, eventVars, pose, auxVars, sample, scan, tint, sorting, reach, loaded, loading>>

\* Lock lock(m_Mutex)
CreateInstanceLock ==
    /\ mgr.pcCreate = "made"
    /\ mgr.m_Mutex = "free"
    /\ mgr' = [mgr EXCEPT !.pcCreate = "locked", !.m_Mutex = "Create"]
    /\ UNCHANGED <<frameVars, outcome, deformVars, eventVars, pose, auxVars, sample, scan, tint, sorting, reach, loaded, loading>>

\* m_vInstances.PushBack(pReturn), unlock and return pReturn to the caller.
CreateInstanceTrack ==
    /\ mgr.pcCreate = "locked"
    /\ mgr' = [mgr EXCEPT !.pcCreate = "idle", !.m_Mutex = "free", !.pReturn = 0,
                          !.m_vInstances = Append(@, mgr.pReturn)]
    /\ UNCHANGED <<frameVars, outcome, deformVars, eventVars, pose, auxVars, sample, scan, tint, sorting, reach, loaded, loading>>

\* Lock lock(m_Mutex).  The call is made only while the copy keeps every count
\* of outside pointers within MaxRefs (no count of a tracked instance can grow
\* while the mutex is held).
GetActiveNetworkInstancesLock ==
    /\ mgr.pcGet = "idle"
    /\ mgr.m_Mutex = "free"
    /\ \A x \in Range(mgr.m_vInstances) : mgr.ext[x] < MaxRefs
    /\ mgr' = [mgr EXCEPT !.pcGet = "locked", !.m_Mutex = "Get"]
    /\ UNCHANGED <<frameVars, outcome, deformVars, eventVars, pose, auxVars, sample, scan, tint, sorting, reach, loaded, loading>>

\* rvInstances = m_vInstances: the caller holds one more pointer to each tracked instance.
GetActiveNetworkInstancesCopy ==
    /\ mgr.pcGet = "locked"
    /\ mgr' = [mgr EXCEPT !.pcGet = "idle", !.m_Mutex = "free",
                          !.ext = [x \in InstanceIds |->
                                     IF x \in Range(mgr.m_vInstances) THEN @[x] + 1 ELSE @[x]]]
    /\ UNCHANGED <<frameVars, outcome, deformVars, eventVars, pose, auxVars, sample, scan, tint, sorting, reach, loaded, loading>>

\* A holder outside the manager releases one SharedPtr (any thread, no lock).
ReleaseInstance ==
    /\ \E x \in InstanceIds :
          /\ mgr.ext[x] > 0
          /\ x # mgr.pReturn
          /\ mgr' = [mgr EXCEPT !.ext[x] = @ - 1]
    /\ UNCHANGED <<frameVars, outcome, deformVars, eventVars, pose, auxVars, sample, scan, tint, sorting, reach, loaded, loading>>

\* Tick: Lock lock(m_Mutex); iCount = GetSize(); i = 0
TickLock ==
    /\ mgr.pcTick = "idle"
    /\ mgr.m_Mutex = "free"
    /\ mgr.uTicks < MaxCalls
    /\ mgr' = [mgr EXCEPT !.pcTick = "loop", !.m_Mutex = "Tick", !.i = 0,
                          !.iCount = Len(mgr.m_vInstances), !.vBefore = mgr.m_vInstances,
                          !.vShared = {}, !.uTicks = @ + 1]
    /\ UNCHANGED <<frameVars, outcome, deformVars, eventVars, pose, auxVars, sample, scan, tint, sorting, reach, loaded, loading>>

\* One iteration of the loop, entry i found unique.
TickPrune ==
    /\ mgr.pcTick = "loop"
    /\ mgr.i < mgr.iCount
    /\ IsUnique(mgr, At(mgr.m_vInstances, mgr.i))
    /\ LET r == TickIteration(mgr.m_vInstances, mgr.i, mgr.iCount)
       IN mgr' = [mgr EXCEPT !.m_vInstances = r.v, !.iCount = r.iCount, !.i = r.i]
    /\ UNCHANGED <<frameVars, outcome, deformVars, eventVars, pose, auxVars, sample, scan, tint, sorting, reach, loaded, loading>>

\* One iteration of the loop, entry i found shared.
TickKeep ==
    /\ mgr.pcTick = "loop"
    /\ mgr.i < mgr.iCount
    /\ ~IsUnique(mgr, At(mgr.m_vInstances, mgr.i))
    /\ mgr' = [mgr EXCEPT !.i = @ + 1, !.vShared = @ \cup {At(mgr.m_vInstances, mgr.i)}]
    /\ UNCHANGED <<frameVars, outcome, deformVars, eventVars, pose, auxVars, sample, scan, tint, sorting, reach, loaded, loading>>

\* m_vInstances.Resize(iCount); unlock; return.
TickReturn ==
    /\ mgr.pcTick = "loop"
    /\ mgr.i >= mgr.iCount
    /\ mgr' = [mgr EXCEPT !.pcTick = "idle", !.m_Mutex = "free",
                          !.m_vInstances = SubSeq(@, 1, mgr.iCount)]
    /\ UNCHANGED <<frameVars, outcome, deformVars, eventVars, pose, auxVars, sample, scan, tint, sorting, reach, loaded, loading>>

NextManager ==
    \/ CreateInstanceNew
    \/ CreateInstanceLock
    \/ CreateInstanceTrack
    \/ GetActiveNetworkInstancesLock
    \/ GetActiveNetworkInstancesCopy
    \/ ReleaseInstance
    \/ TickLock
    \/ TickPrune
    \/ TickKeep
    \/ TickReturn

SpecManager == InitManager /\ [][NextManager]_vars

EachOnce(v) == \A a, b \in 1 .. Len(v) : v[a] = v[b] => a = b

TickReturns == mgr.pcTick = "loop" /\ mgr'.pcTick = "idle"

(***************************************************************************)
(* C28 as stated: when Tick returns, the tracked list holds exactly the    *)
(* previously tracked instances that are referenced outside the manager at *)
(* that moment, each once.                                                 *)
(***************************************************************************)
C28_TickKeepsExactlyReferenced ==
    [][TickReturns =>
         /\ EachOnce(mgr'.m_vInstances)
         /\ Range(mgr'.m_vInstances) = { x \in Range(mgr.vBefore) : ~IsUnique(mgr', x) }]_vars

(***************************************************************************)
(* C28, amended: when Tick returns, the tracked list holds exactly the     *)
(* previously tracked instances that were referenced outside the manager   *)
(* when Tick examined them, each once; every instance it removed is        *)
(* referenced by nobody outside the manager, and an instance whose last    *)
(* outside reference was released after Tick examined it is still tracked. *)
(* Instances created meanwhile are tracked only after Tick has returned.   *)
(***************************************************************************)
C28_TickKeepsReferencedWhenExamined ==
    [][TickReturns =>
         /\ EachOnce(mgr'.m_vInstances)
         /\ Range(mgr'.m_vInstances) = mgr.vShared
         /\ mgr.vShared \subseteq Range(mgr.vBefore)
         /\ \A x \in Range(mgr.vBefore) \ mgr.vShared : IsUnique(mgr', x)
         /\ \A x \in Range(mgr.vBefore) : ~IsUnique(mgr', x) => x \in Range(mgr'.m_vInstances)]_vars

\* A Tick is about to return having pruned one instance and kept another while a
\* CreateInstance call waits for the mutex with a new instance.
C28_Witness ==
    /\ mgr.pcTick = "loop"
    /\ mgr.i >= mgr.iCount
    /\ mgr.iCount < Len(mgr.vBefore)
    /\ mgr.vShared # {}
    /\ mgr.pcCreate = "made"

(***************************************************************************)
(* DataDefinition::Load.  The binary stream holds sixteen tables, read in  *)
(* order; a read fails or yields the file's table.  Every table but the    *)
(* skins is the number of the file it came from (0: the empty table of a   *)
(* new definition).  The skins table maps skin ids to attachments by name  *)
(* (one slot); a linked mesh names a skin and a parent attachment.         *)
(***************************************************************************)
\* The tables in the order Load reads them.
TableOrder ==
    <<"m_vBones", "m_tBones", "m_tClips", "m_vCurves", "m_tEvents", "m_vIk", "m_tIk", "m_MetaData",
      "m_vPaths", "m_tPaths", "m_vPoseTasks", "m_tSkins", "m_vSlots", "m_tSlots", "m_vTransforms",
      "m_tTransforms">>

PlainTables == Range(TableOrder) \ {"m_tSkins"}

AltSkin == 2
UnknownSkin == 3

MeshName == 2
MissingName == 3

Attachment(type, skinId, parentId) ==
    [type |-> type, m_SkinId |-> skinId, m_ParentId |-> parentId, m_pParent |-> 0]

\* Attachment 1 of the default skin: a mesh or a linked mesh.
FirstAttachments ==
    {Attachment("Mesh", EmptyId, 0)} \cup
    { Attachment("LinkedMesh", skinId, parentId) :
        skinId \in {EmptyId, AltSkin, UnknownSkin}, parentId \in {MeshName, MissingName} }

\* Attachment 2 of a skin: absent, a mesh or something else.
SecondAttachments == {Attachment("Mesh", EmptyId, 0), Attachment("Region", EmptyId, 0)}

\* The reads a stream can fail at: the first, the third, the skins, the last.
FailPoints == {0, 1, 3, 12, Len(TableOrder)}

AttachmentSetsOf(first, seconds) ==
    { [n \in {1} |-> a] : a \in first } \cup
    { [n \in {1, MeshName} |-> IF n = 1 THEN a ELSE b] : a \in first, b \in seconds }

SkinTables ==
    { [k \in {kDefaultSkin} |-> d] :
        d \in AttachmentSetsOf(FirstAttachments, {Attachment("Mesh", EmptyId, 0)}) } \cup
    { [k \in {kDefaultSkin, AltSkin} |-> IF k = kDefaultSkin THEN d ELSE a] :
        d \in AttachmentSetsOf(FirstAttachments, {Attachment("Mesh", EmptyId, 0)}),
        a \in AttachmentSetsOf({Attachment("Region", EmptyId, 0)}, SecondAttachments) }

\* A stream: the file it was written from, its skins, and the read that fails (0: none).
\* The definition remembers of its last stream the file, the failing read and the skin ids.
Streams == [uFile : 1 .. MaxFiles, tSkins : SkinTables, uFails : FailPoints]

\* DataDefinition::DataDefinition()
NewDefinition == [t |-> [n \in PlainTables |-> 0], m_tSkins |-> <<>>]

\* The chain bReturn = bReturn && r.Read(...): tables before the failing read are
\* read, the failing one and those after it are not.
ReadTables(r) ==
    LET bRead(u) == r.uFails = 0 \/ u < r.uFails
        uOf(n) == CHOOSE u \in 1 .. Len(TableOrder) : TableOrder[u] = n
    IN [bReturn |-> r.uFails = 0,
        t |-> [n \in PlainTables |-> IF bRead(uOf(n)) THEN r.uFile ELSE 0],
        tSkins |-> IF bRead(uOf("m_tSkins")) THEN r.tSkins ELSE <<>>]

\* The parent of one linked mesh: 0 when a lookup fails, else skin * 10 + name.
LinkedParent(tSkins, a) ==
    LET skinId == IF a.m_SkinId = EmptyId THEN kDefaultSkin ELSE a.m_SkinId
    IN IF skinId \notin DOMAIN tSkins THEN 0
       ELSE IF a.m_ParentId \notin DOMAIN tSkins[skinId] THEN 0
       ELSE IF tSkins[skinId][a.m_ParentId].type # "Mesh" THEN 0
       ELSE skinId * 10 + a.m_ParentId

IsLinked(a) == a.type = "LinkedMesh"

\* The loop over skins, slots and attachments: false at the first linked mesh
\* whose parent does not resolve, else every linked mesh gets its m_pParent.
ResolveLinkedMeshes(tSkins) ==
    [bReturn |-> \A k \in DOMAIN tSkins : \A n \in DOMAIN tSkins[k] :
                    IsLinked(tSkins[k][n]) => LinkedParent(tSkins, tSkins[k][n]) # 0,
     tSkins |-> [k \in DOMAIN tSkins |-> [n \in DOMAIN tSkins[k] |->
                    IF IsLinked(tSkins[k][n])
                    THEN [tSkins[k][n] EXCEPT !.m_pParent = LinkedParent(tSkins, tSkins[k][n])]
                    ELSE tSkins[k][n]]]]

\* Load that reads straight into the definition's tables.
Load_InPlace(m, r) ==
    LET read == ReadTables(r)
        linked == ResolveLinkedMeshes(read.tSkins)
    IN [bReturn |-> read.bReturn /\ linked.bReturn,
        m |-> [t |-> read.t, m_tSkins |-> linked.tSkins]]

\* DataDefinition::Load: locals are read and resolved, and swapped in on success.
Load(m, r) ==
    LET read == ReadTables(r)
        linked == ResolveLinkedMeshes(read.tSkins)
    IN IF ~read.bReturn THEN [bReturn |-> FALSE, m |-> m]
       ELSE IF ~linked.bReturn THEN [bReturn |-> FALSE, m |-> m]
       ELSE [bReturn |-> TRUE, m |-> [t |-> read.t, m_tSkins |-> linked.tSkins]]

InitLoad ==
    /\ loaded = [stage |-> "new", m |-> NewDefinition, before |-> NewDefinition, bReturn |-> TRUE,
                 uFile |-> 0, uFails |-> 0, skins |-> {}]
    /\ IdleFrame /\ IdleOrder /\ IdleDeform /\ IdleEvents /\ IdlePose
    /\ drawn = NoDrawn /\ life = NoLife /\ asked = NoQuery /\ defn = NoDefinition
    /\ built = NoInstance /\ twin = NoTwin
    /\ sample = NoSample
    /\ scan = NoScan
    /\ tint = NoTint
    /\ sorting = NoSorting
    /\ reach = NoReach
    /\ mgr = NoManager
    /\ loading = NoLoading

CallLoad ==
    /\ \E r \in Streams :
          LET res == Load(loaded.m, r)
          IN loaded' = [stage |-> "loaded", m |-> res.m, before |-> loaded.m, bReturn |-> res.bReturn,
                        uFile |-> r.uFile, uFails |-> r.uFails, skins |-> DOMAIN r.tSkins]
    /\ UNCHANGED <<frameVars, outcome, deformVars, eventVars, pose, auxVars, sample, scan, tint, sorting, reach, mgr, loading>>

NextLoad == CallLoad

SpecLoad == InitLoad /\ [][NextLoad]_vars

(***************************************************************************)
(* C29: Load is all-or-nothing.  When it returns false every table of the  *)
(* definition is what it was before the call; when it returns true every   *)
(* table comes from the stream.                                            *)
(***************************************************************************)
C29_LoadAllOrNothing ==
    loaded.stage = "loaded" =>
        /\ ~loaded.bReturn => loaded.m = loaded.before
        /\ loaded.bReturn =>
              /\ \A n \in PlainTables : loaded.m.t[n] = loaded.uFile
              /\ DOMAIN loaded.m.m_tSkins = loaded.skins

\* A Load failed on a linked mesh whose parent is missing, after every table was
\* read, on a definition that held the tables of an earlier, different file.
C29_Witness ==
    /\ loaded.stage = "loaded"
    /\ ~loaded.bReturn
    /\ loaded.uFails = 0
    /\ loaded.before # NewDefinition
    /\ loaded.before.t["m_vBones"] # loaded.uFile
    /\ loaded.m = loaded.before

\* A Load failed at a read in the middle of the stream.
C29_WitnessRead ==
    /\ loaded.stage = "loaded"
    /\ ~loaded.bReturn
    /\ loaded.uFails = 3
    /\ loaded.before # NewDefinition

(***************************************************************************)
(* DataContentLoader.  One content entry with its loader count and its     *)
(* content; each loader is constructed with a handle to the entry, is run  *)
(* by the content system (which calls InternalExecuteContentLoadOp while   *)
(* the load state is a loading state and stores the state it returns) and  *)
(* is destroyed once it is not loading.  uIncrements and uDecrements count *)
(* the calls each loader made on the entry's loader count.                 *)
(***************************************************************************)
LoaderIds == 1 .. MaxLoaders

LoadingStates == {"kLoadingOnFileIOThread", "kLoadingOnWorkerThread"}

NoLoader ==
    [stage |-> "none", state |-> "kNotLoaded", m_hEntry |-> FALSE, m_pRawData |-> FALSE,
     m_bNetworkPrefetched |-> FALSE, uIncrements |-> 0, uDecrements |-> 0]

\* DataContentLoader::DataContentLoader
ConstructLoader(bPrefetched) ==
    [stage |-> "alive", state |-> "kNotLoaded", m_hEntry |-> TRUE, m_pRawData |-> FALSE,
     m_bNetworkPrefetched |-> bPrefetched, uIncrements |-> 1, uDecrements |-> 0]

\* InternalReleaseEntry without the IsInternalPtrValid() test.
InternalReleaseEntry_Unguarded(l) ==
    [l EXCEPT !.m_hEntry = FALSE, !.uDecrements = @ + 1]

\* DataContentLoader::InternalReleaseEntry
InternalReleaseEntry(l) ==
    IF l.m_hEntry THEN [l EXCEPT !.m_hEntry = FALSE, !.uDecrements = @ + 1] ELSE l

\* DataContentLoader::InternalFreeData
InternalFreeData(l) == [l EXCEPT !.m_pRawData = FALSE]

\* What the file system, the network and the decoder answer during one call.
LoadAnswers ==
    [bUnique : BOOLEAN, bServicedByNetwork : BOOLEAN, bNetworkFileIOEnabled : BOOLEAN,
     bPrefetch : BOOLEAN, bReadAll : BOOLEAN, bDecompress : BOOLEAN, bSuccess : BOOLEAN]

\* The tail of InternalExecuteContentLoadOp: free, swap in an invalid entry, kError.
LoadError(l) == [l |-> [InternalFreeData(l) EXCEPT !.state = "kError"], content |-> "invalid"]

\* DataContentLoader::InternalExecuteContentLoadOp: the loader after the call (its
\* state is the returned state) and what the entry's content becomes.
InternalExecuteContentLoadOp(l, e) ==
    IF l.state = "kLoadingOnFileIOThread"
    THEN IF e.bUnique
         THEN [l |-> [InternalReleaseEntry(l) EXCEPT !.state = "kLoaded"], content |-> "cancelled"]
         ELSE IF e.bServicedByNetwork
         THEN IF e.bNetworkFileIOEnabled
              THEN [l |-> [l EXCEPT !.m_bNetworkPrefetched = IF @ THEN @ ELSE e.bPrefetch],
                    content |-> "keep"]
              ELSE LoadError(l)
         ELSE IF e.bReadAll
         THEN [l |-> [l EXCEPT !.m_pRawData = TRUE, !.state = "kLoadingOnWorkerThread"],
               content |-> "keep"]
         ELSE LoadError(l)
    ELSE IF l.state = "kLoadingOnWorkerThread"
    THEN IF e.bDecompress /\ e.bSuccess
         THEN [l |-> [InternalReleaseEntry(InternalFreeData(l)) EXCEPT !.state = "kLoaded"],
               content |-> "data"]
         ELSE LoadError(l)
    ELSE LoadError(l)

\* DataContentLoader::~DataContentLoader, after WaitUntilContentIsNotLoading
DestroyLoader(l) == [InternalFreeData(InternalReleaseEntry(l)) EXCEPT !.stage = "destroyed"]

\* The entry's loader count after loader k changed from l to n.
Counted(count, l, n) ==
    count + (n.uIncrements - l.uIncrements) - (n.uDecrements - l.uDecrements)

InitLoaders ==
    /\ loading = [stage |-> "entry", m_LoaderCount |-> 0, content |-> "none",
                  v |-> [k \in LoaderIds |-> NoLoader]]
    /\ IdleFrame /\ IdleOrder /\ IdleDeform /\ IdleEvents /\ IdlePose
    /\ drawn = NoDrawn /\ life = NoLife /\ asked = NoQuery /\ defn = NoDefinition
    /\ built = NoInstance /\ twin = NoTwin
    /\ sample = NoSample
    /\ scan = NoScan
    /\ tint = NoTint
    /\ sorting = NoSorting
    /\ reach = NoReach
    /\ mgr = NoManager
    /\ loaded = NoLoaded

NewLoader ==
    /\ \E k \in LoaderIds, bPrefetched \in BOOLEAN :
          /\ loading.v[k].stage = "none"
          /\ LET n == ConstructLoader(bPrefetched)
             IN loading' = [loading EXCEPT !.v[k] = n,
                                           !.m_LoaderCount = Counted(@, loading.v[k], n)]
    /\ UNCHANGED <<frameVars, outcome, deformVars, eventVars, pose, auxVars, sample, scan, tint, sorting, reach, mgr, loaded>>

\* The content system queues the loader on the file IO thread.
StartContentLoad ==
    /\ \E k \in LoaderIds :
          /\ loading.v[k].stage = "alive"
          /\ loading.v[k].state = "kNotLoaded"
          /\ loading' = [loading EXCEPT !.v[k].state = "kLoadingOnFileIOThread"]
    /\ UNCHANGED <<frameVars, outcome, deformVars, eventVars, pose, auxVars, sample, scan, tint, sorting, reach, mgr, loaded>>

ExecuteContentLoadOp ==
    /\ \E k \in LoaderIds, e \in LoadAnswers :
          /\ loading.v[k].stage = "alive"
          /\ loading.v[k].state \in LoadingStates
          /\ LET r == InternalExecuteContentLoadOp(loading.v[k], e)
             IN loading' = [loading EXCEPT !.v[k] = r.l,
                                           !.m_LoaderCount = Counted(@, loading.v[k], r.l),
                                           !.content = IF r.content = "keep" THEN @ ELSE r.content]
    /\ UNCHANGED <<frameVars, outcome, deformVars, eventVars, pose, auxVars, sample, scan, tint, sorting, reach, mgr, loaded>>

DeleteLoader ==
    /\ \E k \in LoaderIds :
          /\ loading.v[k].stage = "alive"
          /\ loading.v[k].state \notin LoadingStates
          /\ LET n == DestroyLoader(loading.v[k])
             IN loading' = [loading EXCEPT !.v[k] = n,
                                           !.m_LoaderCount = Counted(@, loading.v[k], n)]
    /\ UNCHANGED <<frameVars, outcome, deformVars, eventVars, pose, auxVars, sample, scan, tint, sorting, reach, mgr, loaded>>

NextLoaders ==
    \/ NewLoader
    \/ StartContentLoad
    \/ ExecuteContentLoadOp
    \/ DeleteLoader

SpecLoaders == InitLoaders /\ [][NextLoaders]_vars

\* Loaders that hold their increment of the entry's loader count.
Holding == { k \in LoaderIds : loading.v[k].uIncrements > loading.v[k].uDecrements }

(***************************************************************************)
(* C30: every loader increments the entry's loader count once, when it is  *)
(* constructed, and decrements it at most once while it lives and exactly  *)
(* once by the time it is destroyed: at once on a successful or cancelled  *)
(* load, in the destructor after an error or when no load ran.  The count  *)
(* is the number of loaders that have not yet decremented it.              *)
(***************************************************************************)
C30_LoaderCountOncePerLoader ==
    /\ \A k \in LoaderIds :
          LET l == loading.v[k]
          IN /\ l.uIncrements = (IF l.stage = "none" THEN 0 ELSE 1)
             /\ l.uDecrements \in {0, 1}
             /\ l.stage = "destroyed" => l.uDecrements = 1
             /\ l.state = "kLoaded" => l.uDecrements = 1
             /\ (l.stage = "alive" /\ l.state # "kLoaded") => l.uDecrements = 0
    /\ loading.m_LoaderCount = Cardinality(Holding)

\* One loader was destroyed after a successful load, another after a load error.
C30_Witness ==
    /\ \E k \in LoaderIds : loading.v[k].stage = "destroyed" /\ loading.v[k].state = "kLoaded"
    /\ \E k \in LoaderIds : loading.v[k].stage = "destroyed" /\ loading.v[k].state = "kError"
    /\ loading.content = "data"
    /\ loading.m_LoaderCount = 0

====
